---- MODULE Spec2Model ----
(***************************************************************************)
(* Model of the funsig declaration extraction engine (src/src/parser.ts).  *)
(*                                                                         *)
(* Eight specifications share the variables below:                         *)
(*   SpecTree    - extractDeclarations applied to syntax trees that are    *)
(*                 grown statement by statement;                           *)
(*   SpecLang    - getLanguageForFile / parseFile applied to file paths;   *)
(*   Spec        - parseFile and parseDirectory of an engine instance      *)
(*                 (a CodeParser object) and of the module level           *)
(*                 wrappers, one call at a time, over a small file system; *)
(*   SpecGrammar - initParser and parseFile over the grammar modules:      *)
(*                 the per-engine cache and the module-level variables;    *)
(*   SpecComment - buildCommentMap and findClosestComment over texts that  *)
(*                 are grown piece by piece, with their trees;             *)
(*   SpecTypes   - extractDeclarations with the parameters and return      *)
(*                 types of the records, over JavaScript and TypeScript    *)
(*                 files grown piece by piece, and the dependency mode;    *)
(*   SpecShapes  - the same over files of class-like declarations and of   *)
(*                 functions with destructured parameters;                 *)
(*   SpecCalls   - parseFile and parseDirectory calls in flight together   *)
(*                 on one engine, each suspended at its awaits.            *)
(*                                                                         *)
(* Syntax trees are the trees of the external tree producer.  Only named   *)
(* nodes are kept: the anonymous keyword and punctuation tokens match no   *)
(* case that produces a record (getNodeName returns '' for them).          *)
(***************************************************************************)
EXTENDS Integers, Sequences, FiniteSets, TLC

VARIABLES
  tree,            \* SpecTree: the syntax tree under construction (rootNode)
  built,           \* SpecTree: number of construction steps taken
  decls,           \* SpecTree: result of extractDeclarations, or NoDecls
  path,            \* SpecLang: the file path under test
  langResult,      \* SpecLang: result of the last call on path
  JavaScript,      \* module-level variable `JavaScript` (parser.ts:7)
  TypeScript,      \* module-level variable `TypeScript` (parser.ts:8)
  idCounter,       \* per engine: this.idCounter
  languageModules, \* per engine: this.languageModules
  parserLanguage,  \* per engine: the language set on this.parser
  soloJavaScript,  \* per engine: `JavaScript` of a process running that engine alone
  soloTypeScript,  \* per engine: `TypeScript` of a process running that engine alone
  soloModules,     \* per engine: languageModules of that engine running alone
  last,            \* the last completed call and what it returned
  calls,           \* SpecCalls: the calls made on the engine, in flight or returned
  fileContent,     \* SpecComment, SpecTypes: the text of the file under construction
  sourceRoot,      \* SpecComment, SpecTypes: tree.rootNode for that text
  sourcePath,      \* SpecTypes: the path of the file (filePath)
  pieces,          \* SpecComment, SpecTypes: the number of pieces the text was grown by
  subject,         \* SpecComment: the node findClosestComment was called on
  closest,         \* SpecComment: what findClosestComment returned for it
  fileDecl         \* SpecTypes: the FileDeclaration made from the file

vars == <<tree, built, decls, path, langResult, JavaScript, TypeScript,
          idCounter, languageModules, parserLanguage,
          soloJavaScript, soloTypeScript, soloModules, last, calls,
          fileContent, sourceRoot, pieces, sourcePath, subject, closest, fileDecl>>

treeVars == <<tree, built, decls>>
langVars == <<path, langResult>>
engineVars == <<JavaScript, TypeScript, idCounter, languageModules, parserLanguage,
                soloJavaScript, soloTypeScript, soloModules, last, calls>>

textVars == <<fileContent, sourceRoot, pieces, sourcePath, subject, closest, fileDecl>>

None == "none"

Min(S) == CHOOSE x \in S : \A y \in S : x <= y
Max(S) == CHOOSE x \in S : \A y \in S : x >= y

\* the element of a one-element set; The({f(x) : x \in {e}}) is f(e) with e
\* evaluated once
The(S) == CHOOSE x \in S : TRUE

\* ------------------------------------------------------------------------
\* Bounds
\* ------------------------------------------------------------------------
MaxDecls == 3      \* construction steps of a tree in SpecTree
MaxId == 6         \* cap of an engine's idCounter in Spec
MaxPieces == 4     \* pieces a text is grown by in SpecComment
MaxTypedPieces == 3  \* pieces a file is grown by in SpecTypes
MaxCalls == 2      \* calls made on the engine in SpecCalls

\* ------------------------------------------------------------------------
\* Syntax trees (the node contract of the tree producer)
\* ------------------------------------------------------------------------
\* A node: its kind, the field name under which it hangs in its parent
\* ("" when it hangs under no field), its source text (kept for name-like
\* leaves only) and its named children.
Node(type, field, text, kids) ==
  [type |-> type, field |-> field, text |-> text, kids |-> kids]

\* node.childForFieldName(f), as the index of the child, 0 when there is none
fieldIndex(node, f) ==
  LET idx == {i \in 1..Len(node.kids) : node.kids[i].field = f}
  IN IF idx = {} THEN 0 ELSE Min(idx)

\* the type of node.childForFieldName(f), None when there is no such child
fieldType(node, f) ==
  IF fieldIndex(node, f) = 0 THEN None ELSE node.kids[fieldIndex(node, f)].type

\* the text of node.childForFieldName(f), "" when there is no such child
fieldText(node, f) ==
  IF fieldIndex(node, f) = 0 THEN "" ELSE node.kids[fieldIndex(node, f)].text

\* the node at the end of a path of child indices
RECURSIVE NodeAt(_, _)
NodeAt(t, nodePath) ==
  IF nodePath = <<>> THEN t ELSE NodeAt(t.kids[Head(nodePath)], Tail(nodePath))

\* the text of node.firstNamedChild: of the last named child instead
firstNamedChildText_last(node) ==
  IF Len(node.kids) = 0 THEN "" ELSE node.kids[Len(node.kids)].text

\* the text of node.firstNamedChild, "" when the node has no named child
firstNamedChildText(node) ==
  IF Len(node.kids) = 0 THEN "" ELSE node.kids[1].text

\* CodeParser.getNodeName
getNodeName(node) ==
  CASE node.type \in {"function_declaration", "class_declaration",
                      "interface_declaration", "enum_declaration"} ->
         fieldText(node, "name")
    [] node.type = "method_definition" -> fieldText(node, "name")
    [] node.type = "variable_declarator" ->
         firstNamedChildText(node)
    [] node.type \in {"property_signature", "property_definition"} ->
         fieldText(node, "name")
    [] OTHER -> ""

\* The accumulator of extractDeclarations: the two result arrays and
\* this.idCounter.  A record keeps the path of the node it was made from
\* (the child indices from the root), which stands for the node's identity.
NewAcc(counter) == [functions |-> <<>>, classes |-> <<>>, idCounter |-> counter]

FunctionRecord(id, name, nodePath) ==
  [id |-> id, functionName |-> name, node |-> nodePath]

\* extractDeclarations.visitFunction
visitFunction(node, nodePath, acc) ==
  IF getNodeName(node) # ""
  THEN [acc EXCEPT !.functions =
            Append(@, FunctionRecord(acc.idCounter, getNodeName(node), nodePath)),
                   !.idCounter = @ + 1]
  ELSE acc

\* does a member of a class body yield a method record (the three branches
\* of the loop of visitClass)
isMember(child) ==
  \/ child.type = "method_definition" /\ getNodeName(child) # ""
  \/ /\ child.type = "property_definition"
     /\ fieldIndex(child, "value") # 0
     /\ getNodeName(child) # ""
     /\ fieldType(child, "value") \in {"arrow_function", "function"}
  \/ /\ child.type \in {"method_signature", "property_signature"}
     /\ getNodeName(child) # ""
     /\ fieldIndex(child, "type") # 0
     /\ (fieldType(child, "type") = "function_type" \/ child.type = "method_signature")

\* the loop of visitClass over body.namedChild(i): the method records and
\* the counter after them
RECURSIVE classMembers(_, _, _, _, _)
classMembers(body, bodyPath, i, methods, counter) ==
  IF i > Len(body.kids) THEN [methods |-> methods, idCounter |-> counter]
  ELSE IF isMember(body.kids[i])
       THEN classMembers(body, bodyPath, i + 1,
              Append(methods, FunctionRecord(counter, getNodeName(body.kids[i]),
                                             Append(bodyPath, i))),
              counter + 1)
       ELSE classMembers(body, bodyPath, i + 1, methods, counter)

ClassRecord(id, name, nodePath, methods) ==
  [id |-> id, className |-> name, node |-> nodePath, methods |-> methods]

\* the id of a class record, m being its methods and the counter after them
classId(m) == m.idCounter

\* extractDeclarations.visitClass
visitClass(node, nodePath, acc) ==
  IF getNodeName(node) = "" THEN acc
  ELSE LET b == fieldIndex(node, "body")
       IN The({[acc EXCEPT !.classes =
                   Append(@, ClassRecord(classId(m), getNodeName(node), nodePath, m.methods)),
                           !.idCounter = m.idCounter + 1] :
               m \in {IF b = 0 THEN [methods |-> <<>>, idCounter |-> acc.idCounter]
                      ELSE classMembers(node.kids[b], Append(nodePath, b), 1, <<>>,
                                        acc.idCounter)}})

\* the loop over the declarators of a variable/lexical declaration
RECURSIVE visitDeclarators(_, _, _, _)
visitDeclarators(node, nodePath, i, acc) ==
  IF i > Len(node.kids) THEN acc
  ELSE LET d == node.kids[i]
           isFn == /\ d.type = "variable_declarator"
                   /\ Len(d.kids) > 0
                   /\ d.kids[Len(d.kids)].type \in {"arrow_function", "function"}
       IN visitDeclarators(node, nodePath, i + 1,
            IF isFn THEN visitFunction(d, Append(nodePath, i), acc) ELSE acc)

\* the child that the class_declaration case leaves out of the walk: none (mutant)
classSkipIndex_none(node) == 0

\* the child that the class_declaration case leaves out of the walk: the body
classSkipIndex(node) == fieldIndex(node, "body")

\* CodeParser.traverseTree; traverseChildren is its loop over node.child(i),
\* leaving out child number skip: the accumulator after the first n children
RECURSIVE traverseTree(_, _, _), traverseChildren(_, _, _, _, _)

\* what follows the loop of the export_statement case: the default loop
\* over the children once more (mutant)
afterExport_fallThrough(node, nodePath, acc) == traverseChildren(node, nodePath, Len(node.kids), 0, acc)

\* what follows the loop of the export_statement case: return
afterExport(node, nodePath, acc) == acc

traverseChildren(node, nodePath, n, skip, acc) ==
  CASE n = 0 -> acc
    [] n # 0 /\ n = skip -> traverseChildren(node, nodePath, n - 1, skip, acc)
    [] OTHER ->
         CHOOSE after \in {traverseTree(node.kids[n], childPath, before) :
                             before \in {traverseChildren(node, nodePath, n - 1, skip, acc)},
                             childPath \in {Append(nodePath, n)}} : TRUE

traverseTree(node, nodePath, acc) ==
  CASE node.type \in {"function_declaration", "method_definition",
                      "generator_function_declaration", "function"} ->
         traverseChildren(node, nodePath, Len(node.kids), 0, visitFunction(node, nodePath, acc))
    [] node.type = "class_declaration" ->
         traverseChildren(node, nodePath, Len(node.kids), classSkipIndex(node),
                          visitClass(node, nodePath, acc))
    [] node.type \in {"variable_declaration", "lexical_declaration"} ->
         traverseChildren(node, nodePath, Len(node.kids), 0, visitDeclarators(node, nodePath, 1, acc))
    [] node.type = "type_alias_declaration" ->
         traverseChildren(node, nodePath, Len(node.kids), 0,
           IF fieldType(node, "value") \in {"function_type", "arrow_function"}
           THEN visitFunction(node, nodePath, acc) ELSE acc)
    [] node.type = "export_statement" ->
         afterExport(node, nodePath, traverseChildren(node, nodePath, Len(node.kids), 0, acc))
    [] node.type = "enum_declaration" ->
         traverseChildren(node, nodePath, Len(node.kids), 0, visitClass(node, nodePath, acc))
    [] OTHER -> traverseChildren(node, nodePath, Len(node.kids), 0, acc)

\* CodeParser.extractDeclarations, started with this.idCounter = counter;
\* returns { functions, classes } and the counter it leaves behind
extractDeclarations(rootNode, counter) ==
  traverseTree(rootNode, <<>>, NewAcc(counter))

\* ------------------------------------------------------------------------
\* Trees of the tree producer, by source construct
\* ------------------------------------------------------------------------
Ident(type, field, text) == Node(type, field, text, <<>>)
Block(stmts) == Node("statement_block", "body", "", stmts)

\* function f() { stmts }  and  function* f() { stmts }
FuncDecl(kind, name, stmts) ==
  Node(kind, "", "", <<Ident("identifier", "name", name), Block(stmts)>>)

\* f() { stmts }  as a member of a class body or of an object literal
Method(name, stmts) ==
  Node("method_definition", "", "",
       <<Ident("property_identifier", "name", name), Block(stmts)>>)

\* f = () => {}  as a member of a class body
PropArrow(name) ==
  Node("property_definition", "", "",
       <<Ident("property_identifier", "name", name),
         Node("arrow_function", "value", "", <<Block(<<>>)>>)>>)

\* class C { members }
ClassDecl(name, members) ==
  Node("class_declaration", "", "",
       <<Ident("type_identifier", "name", name),
         Node("class_body", "body", "", members)>>)

\* const f = <value>
LexDecl(name, value) ==
  Node("lexical_declaration", "", "",
       <<Node("variable_declarator", "", "",
              <<Ident("identifier", "name", name), value>>)>>)

ArrowFn(stmts) == Node("arrow_function", "value", "", <<Block(stmts)>>)
FuncExpr == Node("function", "value", "", <<Block(<<>>)>>)
NumberLit == Ident("number", "value", "1")

\* const K = class { f() {} }
ClassExpr ==
  Node("class", "value", "",
       <<Node("class_body", "body", "", <<Method("f", <<>>)>>)>>)

\* enum E { A }
EnumDecl(name) ==
  Node("enum_declaration", "", "",
       <<Ident("identifier", "name", name),
         Node("enum_body", "body", "", <<Ident("property_identifier", "name", "A")>>)>>)

\* interface I { f(): void }
InterfaceDecl(name) ==
  Node("interface_declaration", "", "",
       <<Ident("type_identifier", "name", name),
         Node("interface_body", "body", "",
              <<Node("method_signature", "", "",
                     <<Ident("property_identifier", "name", "f")>>)>>)>>)

\* type T = () => void
TypeAlias(name) ==
  Node("type_alias_declaration", "", "",
       <<Ident("type_identifier", "name", name),
         Node("function_type", "value", "", <<>>)>>)

\* ({ f() {} })
ObjectMethod ==
  Node("expression_statement", "", "",
       <<Node("object", "", "", <<Method("f", <<>>)>>)>>)

\* run(() => {}, function () {})
CallWithCallbacks ==
  Node("expression_statement", "", "",
       <<Node("call_expression", "", "",
              <<Ident("identifier", "function", "run"),
                Node("arguments", "arguments", "",
                     <<Node("arrow_function", "", "", <<Block(<<>>)>>),
                       Node("function", "", "", <<Block(<<>>)>>)>>)>>)>>)

\* export <stmt>
Export(stmt) == Node("export_statement", "", "", <<stmt>>)

Program(stmts) == Node("program", "", "", stmts)

\* the statements a tree is grown from
LeafStmts ==
  { FuncDecl("function_declaration", "f", <<>>),
    FuncDecl("generator_function_declaration", "f", <<>>),
    ClassDecl("C", <<>>),
    ClassDecl("C", <<Method("f", <<>>)>>),
    LexDecl("f", ArrowFn(<<>>)),
    LexDecl("f", FuncExpr),
    LexDecl("f", NumberLit),
    LexDecl("K", ClassExpr),
    EnumDecl("E"),
    InterfaceDecl("I"),
    TypeAlias("T"),
    ObjectMethod,
    CallWithCallbacks }

\* the members a class body is grown by
LeafMembers == { Method("g", <<>>), PropArrow("h") }

NoDecls == [functions |-> <<>>, classes |-> <<>>, idCounter |-> 0]

LastStmt(t) == t.kids[Len(t.kids)]
ReplaceLast(t, stmt) == [t EXCEPT !.kids[Len(t.kids)] = stmt]

\* ------------------------------------------------------------------------
\* SpecTree: grow a tree, then extract its declarations
\* ------------------------------------------------------------------------
CanGrow == decls = NoDecls /\ built < MaxDecls

\* a further top-level statement
AppendStmt ==
  /\ CanGrow
  /\ \E s \in LeafStmts : tree' = [tree EXCEPT !.kids = Append(@, s)]
  /\ built' = built + 1
  /\ UNCHANGED <<decls, langVars, engineVars, textVars>>

\* the last statement moves into the body of a new function g
NestInFunction ==
  /\ CanGrow /\ Len(tree.kids) > 0
  /\ tree' = ReplaceLast(tree, FuncDecl("function_declaration", "g", <<LastStmt(tree)>>))
  /\ built' = built + 1
  /\ UNCHANGED <<decls, langVars, engineVars, textVars>>

\* the last statement moves into the body of method m of a new class D
NestInMethod ==
  /\ CanGrow /\ Len(tree.kids) > 0
  /\ tree' = ReplaceLast(tree, ClassDecl("D", <<Method("m", <<LastStmt(tree)>>)>>))
  /\ built' = built + 1
  /\ UNCHANGED <<decls, langVars, engineVars, textVars>>

\* the last statement moves into the body of an arrow function bound to a
WrapInArrow ==
  /\ CanGrow /\ Len(tree.kids) > 0
  /\ tree' = ReplaceLast(tree, LexDecl("a", ArrowFn(<<LastStmt(tree)>>)))
  /\ built' = built + 1
  /\ UNCHANGED <<decls, langVars, engineVars, textVars>>

\* the last statement is exported
WrapExport ==
  /\ CanGrow /\ Len(tree.kids) > 0
  /\ LastStmt(tree).type # "export_statement"
  /\ tree' = ReplaceLast(tree, Export(LastStmt(tree)))
  /\ built' = built + 1
  /\ UNCHANGED <<decls, langVars, engineVars, textVars>>

\* the last statement, a class declaration, gets a further member
AddMember ==
  /\ CanGrow /\ Len(tree.kids) > 0
  /\ LastStmt(tree).type = "class_declaration"
  /\ \E m \in LeafMembers :
       tree' = ReplaceLast(tree, [LastStmt(tree) EXCEPT !.kids[2].kids = Append(@, m)])
  /\ built' = built + 1
  /\ UNCHANGED <<decls, langVars, engineVars, textVars>>

\* extractDeclarations on the tree, by a fresh engine (idCounter = 1)
Extract ==
  /\ decls = NoDecls
  /\ decls' = extractDeclarations(tree, 1)
  /\ UNCHANGED <<tree, built, langVars, engineVars, textVars>>

NextTree ==
  \/ AppendStmt \/ NestInFunction \/ NestInMethod \/ WrapInArrow
  \/ WrapExport \/ AddMember \/ Extract

\* ------------------------------------------------------------------------
\* File paths and the grammar table
\* ------------------------------------------------------------------------
\* A path or an extension is a sequence of characters.
UpperChars == <<"A", "B", "C", "D", "E", "F", "G", "H", "I", "J", "K", "L", "M", "N", "O", "P", "Q", "R", "S", "T", "U", "V", "W", "X", "Y", "Z">>
LowerChars == <<"a", "b", "c", "d", "e", "f", "g", "h", "i", "j", "k", "l", "m", "n", "o", "p", "q", "r", "s", "t", "u", "v", "w", "x", "y", "z">>

\* the lower case letter of every upper case letter
LowerOf ==
  [c \in {UpperChars[i] : i \in 1..Len(UpperChars)} |->
     LowerChars[CHOOSE i \in 1..Len(UpperChars) : UpperChars[i] = c]]

\* String.prototype.toLowerCase on one character that leaves it as it is (mutant)
toLowerChar_keep(c) == c

\* String.prototype.toLowerCase on one character
toLowerChar(c) == IF c \in DOMAIN LowerOf THEN LowerOf[c] ELSE c

toLowerCase(str) == [i \in 1..Len(str) |-> toLowerChar(str[i])]

\* path.extname (POSIX): trailing slashes are dropped, the base name is what
\* follows the last remaining slash, and the extension runs from the last
\* dot of the base name to its end; it is empty when the base name has no
\* dot, when nothing precedes that dot, and when the base name is "..".
extname(str) ==
  LET nonSlash == {i \in 1..Len(str) : str[i] # "/"}
      end == IF nonSlash = {} THEN 0 ELSE Max(nonSlash)
      slashes == {i \in 1..end : str[i] = "/"}
      startPart == IF slashes = {} THEN 1 ELSE Max(slashes) + 1
      dots == {i \in startPart..end : str[i] = "."}
      startDot == IF dots = {} THEN 0 ELSE Max(dots)
  IN IF end = 0 \/ startDot = 0 \/ startDot = startPart THEN <<>>
     ELSE IF startDot = end /\ startDot = startPart + 1 /\ str[startPart] = "." THEN <<>>
     ELSE SubSeq(str, startDot, end)

\* the switch of getLanguageForFile
languageOfExt(ext) ==
  CASE ext = <<".", "j", "s">> -> "javascript"
    [] ext = <<".", "t", "s">> -> "typescript"
    [] ext = <<".", "j", "s", "x">> -> "javascript"
    [] ext = <<".", "t", "s", "x">> -> "tsx"
    [] ext = <<".", "p", "y">> -> "python"
    [] ext = <<".", "r", "b">> -> "ruby"
    [] ext = <<".", "j", "a", "v", "a">> -> "java"
    [] ext \in {<<".", "c">>, <<".", "h">>} -> "c"
    [] ext \in {<<".", "c", "p", "p">>, <<".", "h", "p", "p">>, <<".", "c", "c">>} -> "cpp"
    [] ext = <<".", "c", "s">> -> "c_sharp"
    [] ext = <<".", "g", "o">> -> "go"
    [] ext = <<".", "p", "h", "p">> -> "php"
    [] ext = <<".", "r", "s">> -> "rust"
    [] ext = <<".", "j", "s", "o", "n">> -> "json"
    [] OTHER -> "unknown"

\* CodeParser.getLanguageForFile with '.json' among the JavaScript
\* extensions (mutant)
getLanguageForFile_jsonAsCode(filePath) ==
  IF languageOfExt(toLowerCase(extname(filePath))) = "json" THEN "javascript"
  ELSE languageOfExt(toLowerCase(extname(filePath)))

\* CodeParser.getLanguageForFile
getLanguageForFile(filePath) == languageOfExt(toLowerCase(extname(filePath)))

\* ------------------------------------------------------------------------
\* The grammar backend (the tree-sitter-* packages) and the file system
\* ------------------------------------------------------------------------
\* every grammar identifier getLanguageForFile can return
Languages ==
  {"javascript", "typescript", "tsx", "python", "ruby", "java", "c", "cpp",
   "c_sharp", "go", "php", "rust"}

\* A grammar handle is named by the grammar it is.  The packages that
\* require() finds, and the handles that Parser.setLanguage rejects
\* (a grammar built for another version of the parser library).
Installed == {"javascript", "typescript", "tsx", "python", "ruby"}
Incompatible == {"ruby"}

\* one file: a.js, with a function that has a generator nested in it
TreeA == Program(<<FuncDecl("function_declaration", "f",
                            <<FuncDecl("generator_function_declaration", "n", <<>>)>>)>>)
TreeB == Program(<<ClassDecl("C", <<Method("f", <<>>)>>)>>)
TreeD == Program(<<Export(LexDecl("f", ArrowFn(<<>>)))>>)
TreeH == Program(<<FuncDecl("function_declaration", "h", <<>>)>>)
TreeEmpty == Program(<<>>)

FileEntry(name) == [name |-> name, kind |-> "file"]
DirEntry(name) == [name |-> name, kind |-> "dir"]

\* the directories that exist: path, whether readdir succeeds, the entries
DirTable ==
  { [path |-> <<"p">>, readable |-> TRUE,
     entries |-> <<FileEntry(<<"a", ".", "j", "s">>), FileEntry(<<"b", ".", "t", "s">>), FileEntry(<<"R", ".", "m", "d">>),
                   FileEntry(<<"c", ".", "j", "s", "o", "n">>), DirEntry(<<"s">>), DirEntry(<<".", "g">>)>>],
    [path |-> <<"p", "/", "s">>, readable |-> TRUE,
     entries |-> <<FileEntry(<<"d", ".", "t", "s", "x">>), FileEntry(<<"e", ".", "p", "y">>), FileEntry(<<"r", ".", "r", "b">>)>>],
    [path |-> <<"p", "/", ".", "g">>, readable |-> TRUE,
     entries |-> <<FileEntry(<<"h", ".", "j", "s">>)>>],
    [path |-> <<"q">>, readable |-> TRUE,
     entries |-> <<FileEntry(<<"x", ".", "j", "s">>), DirEntry(<<"u">>)>>],
    [path |-> <<"q", "/", "u">>, readable |-> FALSE, entries |-> <<>>],
    [path |-> <<"n">>, readable |-> TRUE,
     entries |-> <<FileEntry(<<"x", ".", "j", "s">>), FileEntry(<<"W", ".", "J", "S">>), FileEntry(<<"t", ".", "m", "d">>)>>],
    [path |-> <<"e">>, readable |-> TRUE, entries |-> <<>>] }

\* the files that exist: path, whether readFileSync succeeds, the tree the
\* tree producer returns for the content
FileTable ==
  { [path |-> <<"p", "/", "a", ".", "j", "s">>, readable |-> TRUE, tree |-> TreeA],
    [path |-> <<"p", "/", "b", ".", "t", "s">>, readable |-> TRUE, tree |-> TreeB],
    [path |-> <<"p", "/", "R", ".", "m", "d">>, readable |-> TRUE, tree |-> TreeEmpty],
    [path |-> <<"p", "/", "c", ".", "j", "s", "o", "n">>, readable |-> TRUE, tree |-> TreeEmpty],
    [path |-> <<"p", "/", "s", "/", "d", ".", "t", "s", "x">>, readable |-> TRUE, tree |-> TreeD],
    [path |-> <<"p", "/", "s", "/", "e", ".", "p", "y">>, readable |-> TRUE, tree |-> TreeH],
    [path |-> <<"p", "/", "s", "/", "r", ".", "r", "b">>, readable |-> TRUE, tree |-> TreeH],
    [path |-> <<"p", "/", ".", "g", "/", "h", ".", "j", "s">>, readable |-> TRUE, tree |-> TreeH],
    [path |-> <<"q", "/", "x", ".", "j", "s">>, readable |-> FALSE, tree |-> TreeEmpty],
    [path |-> <<"n", "/", "x", ".", "j", "s">>, readable |-> FALSE, tree |-> TreeEmpty],
    [path |-> <<"n", "/", "W", ".", "J", "S">>, readable |-> TRUE, tree |-> TreeH],
    [path |-> <<"n", "/", "t", ".", "m", "d">>, readable |-> TRUE, tree |-> TreeEmpty] }

DirExists(dirPath) == \E d \in DirTable : d.path = dirPath /\ d.readable
DirEntries(dirPath) == (CHOOSE d \in DirTable : d.path = dirPath).entries
FileReadable(filePath) == \E f \in FileTable : f.path = filePath /\ f.readable
FileTree(filePath) == (CHOOSE f \in FileTable : f.path = filePath).tree

\* path.join(directory, name)
join(directory, name) == directory \o <<"/">> \o name

\* ------------------------------------------------------------------------
\* One engine: the module variables it sees and its own fields
\* ------------------------------------------------------------------------
EmptyCache == [l \in Languages |-> None]

Engine(js, ts, cache, plang, counter) ==
  [js |-> js, ts |-> ts, cache |-> cache, plang |-> plang, counter |-> counter]

\* the value require() yields for a language, None when it throws
requireModule(language) == IF language \in Installed THEN language ELSE None

\* the module variable a language is loaded through: "ts", "js" or None
moduleVariable(language) ==
  CASE language \in {"typescript", "tsx"} -> "ts"
    [] language = "javascript" -> "js"
    [] OTHER -> None

\* is the cached handle reused: never (mutant)
cacheHit_never(st, language) == FALSE

\* the test of initParser for an already loaded language
cacheHit(st, language) == st.cache[language] # None

\* CodeParser.initParser: the engine afterwards, whether it threw, whether
\* it took the cached handle and whether it called require()
initParser(st, language) ==
  IF cacheHit(st, language)
  THEN IF st.cache[language] \in Incompatible
       THEN [st |-> st, threw |-> TRUE, hit |-> TRUE, required |-> FALSE]
       ELSE [st |-> [st EXCEPT !.plang = st.cache[language]],
             threw |-> FALSE, hit |-> TRUE, required |-> FALSE]
  ELSE LET mv == moduleVariable(language)
           held == IF mv = "ts" THEN st.ts ELSE IF mv = "js" THEN st.js ELSE None
           required == held = None
           languageModule == IF required THEN requireModule(language) ELSE held
           st1 == IF mv = "ts" THEN [st EXCEPT !.ts = languageModule]
                  ELSE IF mv = "js" THEN [st EXCEPT !.js = languageModule]
                  ELSE st
           st2 == [st1 EXCEPT !.cache[language] = languageModule]
       IN IF languageModule = None
          THEN [st |-> st, threw |-> TRUE, hit |-> FALSE, required |-> required]
          ELSE IF languageModule \in Incompatible
          THEN [st |-> st2, threw |-> TRUE, hit |-> FALSE, required |-> required]
          ELSE [st |-> [st2 EXCEPT !.plang = languageModule],
                threw |-> FALSE, hit |-> FALSE, required |-> required]

FileDeclaration(fileName, functions, classes) ==
  [fileName |-> fileName, functions |-> functions, classes |-> classes]

\* what one call of parseFile did, next to the engine afterwards and the
\* FileDeclaration it returned: did an exception leave it (threw), did it
\* call initParser (load), did it take a cached handle (hit), did it call
\* require() (required), did it call readFileSync (read), and the language
\* of the parser at parser.parse
FileOutcome(st, result, threw, load, hit, required, read, grammar) ==
  [st |-> st, result |-> result, threw |-> threw, load |-> load, hit |-> hit,
   required |-> required, read |-> read, grammar |-> grammar]

\* the languages for which parseFile returns at once
skipLanguages == {"unknown", "json"}

\* the value of this.idCounter that the records of a file start from: 1 (mutant)
startCounter_one(st) == 1

\* the value of this.idCounter that the records of a file start from
startCounter(st) == st.counter

\* the try block of parseFile after initParser returned or threw, ip being
\* what initParser did; when the block throws there is no result
parseFileWith(ip, filePath) ==
  IF ip.threw
  THEN FileOutcome(ip.st, None, TRUE, TRUE, ip.hit, ip.required, FALSE, None)
  ELSE IF ~FileReadable(filePath)
  THEN FileOutcome(ip.st, None, TRUE, TRUE, ip.hit, ip.required, TRUE, None)
  ELSE LET acc == extractDeclarations(FileTree(filePath), startCounter(ip.st))
       IN FileOutcome([ip.st EXCEPT !.counter = acc.idCounter],
                      FileDeclaration(filePath, acc.functions, acc.classes),
                      FALSE, TRUE, ip.hit, ip.required, TRUE, ip.st.plang)

\* the try block of parseFile
parseFileBody(st, filePath) ==
  IF getLanguageForFile(filePath) \in skipLanguages
  THEN FileOutcome(st, FileDeclaration(filePath, <<>>, <<>>),
                   FALSE, FALSE, FALSE, FALSE, FALSE, None)
  ELSE The({parseFileWith(ip, filePath) :
              ip \in {initParser(st, getLanguageForFile(filePath))}})

\* the catch clause of parseFile: no exception leaves it (mutant: it rethrows)
catchParseFile_rethrow(body, filePath) == body

\* the catch clause of parseFile: an exception of the try block becomes an
\* empty FileDeclaration
catchParseFile(body, filePath) ==
  IF body.threw
  THEN [body EXCEPT !.threw = FALSE, !.result = FileDeclaration(filePath, <<>>, <<>>)]
  ELSE body

\* CodeParser.parseFile
parseFile(st, filePath) ==
  The({catchParseFile(body, filePath) : body \in {parseFileBody(st, filePath)}})

\* CodeParser.findFiles: the paths found, or threw when a readdirSync fails
RECURSIVE findFiles(_, _), findFilesFrom(_, _, _, _)
findFiles(directory, extensions) ==
  IF ~DirExists(directory) THEN [threw |-> TRUE, files |-> <<>>]
  ELSE findFilesFrom(directory, extensions, 1, <<>>)

findFilesFrom(directory, extensions, i, results) ==
  IF i > Len(DirEntries(directory)) THEN [threw |-> FALSE, files |-> results]
  ELSE LET item == DirEntries(directory)[i]
           itemPath == join(directory, item.name)
       IN IF item.kind = "dir"
          THEN The({IF sub.threw THEN [threw |-> TRUE, files |-> <<>>]
                    ELSE findFilesFrom(directory, extensions, i + 1, results \o sub.files) :
                    sub \in {findFiles(itemPath, extensions)}})
          ELSE IF toLowerCase(extname(item.name)) \in extensions
          THEN findFilesFrom(directory, extensions, i + 1, Append(results, itemPath))
          ELSE findFilesFrom(directory, extensions, i + 1, results)

DefaultExtensions == {<<".", "j", "s">>, <<".", "t", "s">>, <<".", "j", "s", "x">>, <<".", "t", "s", "x">>}

\* scanDir of detectFileExtensions: the extensions seen, or threw
RECURSIVE scanDir(_), scanDirFrom(_, _, _)
scanDir(dir) ==
  IF ~DirExists(dir) THEN [threw |-> TRUE, extensions |-> {}]
  ELSE scanDirFrom(dir, 1, {})

scanDirFrom(dir, i, extensions) ==
  IF i > Len(DirEntries(dir)) THEN [threw |-> FALSE, extensions |-> extensions]
  ELSE LET entry == DirEntries(dir)[i]
       IN IF entry.kind = "dir"
          THEN IF entry.name = <<"n", "o", "d", "e", "_", "m", "o", "d", "u", "l", "e", "s">> \/ entry.name[1] = "."
               THEN scanDirFrom(dir, i + 1, extensions)
               ELSE The({IF sub.threw THEN [threw |-> TRUE, extensions |-> {}]
                         ELSE scanDirFrom(dir, i + 1, extensions \cup sub.extensions) :
                         sub \in {scanDir(join(dir, entry.name))}})
          ELSE IF extname(entry.name) # <<>>
          THEN scanDirFrom(dir, i + 1, extensions \cup {extname(entry.name)})
          ELSE scanDirFrom(dir, i + 1, extensions)

\* CodeParser.detectFileExtensions
detectFileExtensions(directory) ==
  LET scan == scanDir(directory)
  IN IF scan.threw \/ scan.extensions = {} THEN DefaultExtensions
     ELSE scan.extensions

\* the steps one call of parseFile took on a file, in the order it took
\* them: grammar selection (getLanguageForFile), grammar loading
\* (initParser), the read of the text, tree construction (parser.parse) and
\* traversal (extractDeclarations)
fileSteps(filePath, out) ==
  <<[file |-> filePath, step |-> "select"]>>
  \o (IF out.load THEN <<[file |-> filePath, step |-> "load"]>> ELSE <<>>)
  \o (IF out.read THEN <<[file |-> filePath, step |-> "read"]>> ELSE <<>>)
  \o (IF out.grammar # None
      THEN <<[file |-> filePath, step |-> "tree"], [file |-> filePath, step |-> "traverse"]>>
      ELSE <<>>)

\* fileDeclarations.push(fileDeclaration): at the front instead
pushDeclaration_front(fileDeclarations, fileDeclaration) ==
  <<fileDeclaration>> \o fileDeclarations

\* fileDeclarations.push(fileDeclaration)
pushDeclaration(fileDeclarations, fileDeclaration) ==
  Append(fileDeclarations, fileDeclaration)

\* the loop of parseDirectory over the files found; steps is the log of the
\* steps taken so far
RECURSIVE parseFiles(_, _, _, _, _)
parseFiles(files, i, st, fileDeclarations, steps) ==
  IF i > Len(files) THEN [st |-> st, result |-> fileDeclarations, steps |-> steps]
  ELSE \* await this.parseFile(file) returns before the next iteration starts
       The({parseFiles(files, i + 1, out.st, pushDeclaration(fileDeclarations, out.result),
                       steps \o fileSteps(files[i], out)) :
              out \in {parseFile(st, files[i])}})

\* the value parseDirectory gives this.idCounter on entry: none, it keeps it (mutant)
resetCounter_keep(st) == st

\* the value parseDirectory gives this.idCounter on entry
resetCounter(st) == [st EXCEPT !.counter = 1]

Options(directory, fileExtensions) ==
  [directory |-> directory, fileExtensions |-> fileExtensions]

\* the extensions parseDirectory looks for
extensionsOf(options) ==
  IF options.fileExtensions = {} THEN detectFileExtensions(options.directory)
  ELSE options.fileExtensions

\* the try block of parseDirectory after findFiles returned or threw, found
\* being what findFiles did; when the block throws there is no result
parseDirectoryWith(st1, found) ==
  IF found.threw
  THEN [st |-> st1, result |-> None, threw |-> TRUE, caught |-> FALSE, steps |-> <<>>]
  ELSE The({[st |-> run.st, result |-> run.result, threw |-> FALSE, caught |-> FALSE,
             steps |-> run.steps] :
              run \in {parseFiles(found.files, 1, st1, <<>>, <<>>)}})

\* the try block of parseDirectory
parseDirectoryBody(st, options) ==
  The({parseDirectoryWith(resetCounter(st), found) :
         found \in {findFiles(options.directory, extensionsOf(options))}})

\* the catch clause of parseDirectory: none, the exception leaves it (mutant)
catchParseDirectory_rethrow(body) == body

\* the catch clause of parseDirectory: an exception of the try block becomes
\* an empty array
catchParseDirectory(body) ==
  IF body.threw
  THEN [body EXCEPT !.threw = FALSE, !.caught = TRUE, !.result = <<>>]
  ELSE body

\* CodeParser.parseDirectory: the engine afterwards, the array returned,
\* whether an exception left it and whether the catch clause produced the
\* result
parseDirectory(st, options) ==
  The({catchParseDirectory(body) : body \in {parseDirectoryBody(st, options)}})

\* ------------------------------------------------------------------------
\* SpecLang: getLanguageForFile and parseFile on a path
\* ------------------------------------------------------------------------
\* the paths tried: a directory part and base name, then an extension
TestStems == {<<>>, <<"a">>, <<"p", "/", "a">>, <<"p", ".", "t", "s", "/", "a">>, <<"a", ".", "t", "s">>, <<"p", "/">>, <<".">>}
TestExtensions ==
  {<<".", "j", "s">>, <<".", "t", "s">>, <<".", "j", "s", "x">>, <<".", "t", "s", "x">>, <<".", "p", "y">>, <<".", "r", "b">>, <<".", "j", "a", "v", "a">>, <<".", "c">>,
   <<".", "h">>, <<".", "c", "p", "p">>, <<".", "h", "p", "p">>, <<".", "c", "c">>, <<".", "c", "s">>, <<".", "g", "o">>, <<".", "p", "h", "p">>, <<".", "r", "s">>,
   <<".", "j", "s", "o", "n">>, <<".", "J", "S">>, <<".", "T", "s">>, <<".", "T", "S", "X">>, <<".", "P", "y">>, <<".", "H">>, <<".", "C", "P", "P">>, <<".", "J", "s", "o", "n">>,
   <<".", "m", "d">>, <<".", "t", "x", "t">>, <<".", "j">>, <<".", "j", "s", "x", "2">>, <<"j", "s">>, <<".">>, <<>>}
TestPaths == {stem \o ext : stem \in TestStems, ext \in TestExtensions}

NoLangResult ==
  [op |-> "none", language |-> None, load |-> FALSE, read |-> FALSE,
   result |-> FileDeclaration(<<>>, <<>>, <<>>)]

FreshEngine(js, ts) == Engine(js, ts, EmptyCache, None, 1)

\* getLanguageForFile(path) on a new engine
LangGet ==
  /\ langResult.op = "none"
  /\ langResult' = [NoLangResult EXCEPT !.op = "getLanguageForFile",
                                        !.language = getLanguageForFile(path)]
  /\ UNCHANGED <<path, treeVars, engineVars, textVars>>

\* parseFile(path) on a new engine of a new process
LangParse ==
  /\ langResult.op = "none"
  /\ LET out == parseFile(FreshEngine(None, None), path)
     IN langResult' = [op |-> "parseFile", language |-> getLanguageForFile(path),
                       load |-> out.load, read |-> out.read, result |-> out.result]
  /\ UNCHANGED <<path, treeVars, engineVars, textVars>>

NextLang == LangGet \/ LangParse

\* ------------------------------------------------------------------------
\* Spec: engine instances and the module-level wrappers, one call at a time
\* ------------------------------------------------------------------------
\* the engine instances that stay alive between calls; every call of a
\* wrapper makes one more instance, which is dropped when the call returns
Engines == {1}

InitArgs == {"javascript", "typescript", "tsx", "python", "ruby", "go"}
\* the paths parseFile is called with in Spec
FileArgs ==
  {<<"p", "/", "a", ".", "j", "s">>, <<"p", "/", "b", ".", "t", "s">>, <<"p", "/", "s", "/", "d", ".", "t", "s", "x">>, <<"p", "/", "R", ".", "m", "d">>, <<"q", "/", "x", ".", "j", "s">>, <<"p", "/", "z", "z", ".", "j", "s">>}

\* the paths parseFile is called with in SpecGrammar
GrammarFileArgs ==
  {<<"p", "/", "a", ".", "j", "s">>, <<"p", "/", "b", ".", "t", "s">>, <<"p", "/", "s", "/", "d", ".", "t", "s", "x">>, <<"p", "/", "s", "/", "e", ".", "p", "y">>, <<"p", "/", "s", "/", "r", ".", "r", "b">>, <<"p", "/", "k", ".", "g", "o">>, <<"p", "/", "R", ".", "m", "d">>, <<"p", "/", "c", ".", "j", "s", "o", "n">>, <<"q", "/", "x", ".", "j", "s">>, <<"p", "/", "z", "z", ".", "j", "s">>}

\* the options parseDirectory is called with
OptionArgs ==
  { Options(<<"p">>, {}), Options(<<"p">>, {<<".", "j", "s">>, <<".", "t", "s">>}), Options(<<"p">>, {<<".", "m", "d">>, <<".", "j", "s", "o", "n">>, <<".", "t", "s", "x">>}),
    Options(<<"p", "/", "s">>, {<<".", "p", "y">>, <<".", "r", "b">>}), Options(<<"n">>, {}), Options(<<"q">>, {<<".", "j", "s">>}),
    Options(<<"e">>, {}), Options(<<"m">>, {<<".", "j", "s">>}) }

NoCall ==
  [op |-> "none", engine |-> 0, arg |-> None, threw |-> FALSE, hit |-> FALSE,
   required |-> FALSE, load |-> FALSE, read |-> FALSE, caught |-> FALSE,
   result |-> <<>>, start |-> 1, grammar |-> None, steps |-> <<>>]

\* engine e as it is, and as it would be in a process of its own
EngineOf(e) ==
  Engine(JavaScript, TypeScript, languageModules[e], parserLanguage[e], idCounter[e])
SoloOf(e) ==
  Engine(soloJavaScript[e], soloTypeScript[e], soloModules[e],
         parserLanguage[e], idCounter[e])

\* engine e and the module variables after a call; solo is the same call
\* made in a process where e is the only engine
Store(e, st, solo) ==
  /\ JavaScript' = st.js
  /\ TypeScript' = st.ts
  /\ languageModules' = [languageModules EXCEPT ![e] = st.cache]
  /\ parserLanguage' = [parserLanguage EXCEPT ![e] = st.plang]
  /\ idCounter' = [idCounter EXCEPT ![e] = st.counter]
  /\ soloJavaScript' = [soloJavaScript EXCEPT ![e] = solo.js]
  /\ soloTypeScript' = [soloTypeScript EXCEPT ![e] = solo.ts]
  /\ soloModules' = [soloModules EXCEPT ![e] = solo.cache]
  /\ UNCHANGED calls

\* the module variables after a call of a wrapper, whose engine is dropped
StoreWrapper(st) ==
  /\ JavaScript' = st.js
  /\ TypeScript' = st.ts
  /\ UNCHANGED <<languageModules, parserLanguage, idCounter,
                 soloJavaScript, soloTypeScript, soloModules, calls>>

\* engine.initParser(language)
InitParser(e, language) ==
  \E out \in {initParser(EngineOf(e), language)} :
     /\ (\E solo \in {initParser(SoloOf(e), language)} : Store(e, out.st, solo.st))
     /\ last' = [NoCall EXCEPT !.op = "initParser", !.engine = e, !.arg = language,
                               !.threw = out.threw, !.hit = out.hit,
                               !.required = out.required, !.load = TRUE,
                               !.start = idCounter[e]]
     /\ UNCHANGED <<treeVars, langVars, textVars>>

\* engine.parseFile(filePath)
ParseFile(e, filePath) ==
  \E out \in {parseFile(EngineOf(e), filePath)} :
     /\ out.st.counter <= MaxId
     /\ (\E solo \in {parseFile(SoloOf(e), filePath)} : Store(e, out.st, solo.st))
     /\ last' = [NoCall EXCEPT !.op = "parseFile", !.engine = e, !.arg = filePath,
                               !.threw = out.threw, !.hit = out.hit, !.required = out.required,
                               !.load = out.load, !.read = out.read,
                               !.result = <<out.result>>, !.start = idCounter[e],
                               !.grammar = out.grammar]
     /\ UNCHANGED <<treeVars, langVars, textVars>>

\* engine.parseDirectory(options)
ParseDirectory(e, options) ==
  \E out \in {parseDirectory(EngineOf(e), options)} :
     /\ (\E solo \in {parseDirectory(SoloOf(e), options)} : Store(e, out.st, solo.st))
     /\ last' = [NoCall EXCEPT !.op = "parseDirectory", !.engine = e, !.arg = options,
                               !.threw = out.threw, !.caught = out.caught, !.result = out.result,
                               !.start = idCounter[e], !.steps = out.steps]
     /\ UNCHANGED <<treeVars, langVars, textVars>>

\* the exported function parseFile(filePath, options): a new CodeParser
WrapperParseFile(filePath) ==
  \E out \in {parseFile(FreshEngine(JavaScript, TypeScript), filePath)} :
     /\ StoreWrapper(out.st)
     /\ last' = [NoCall EXCEPT !.op = "parseFile", !.engine = 0, !.arg = filePath,
                               !.threw = out.threw, !.hit = out.hit, !.required = out.required,
                               !.load = out.load, !.read = out.read,
                               !.result = <<out.result>>, !.start = 1,
                               !.grammar = out.grammar]
     /\ UNCHANGED <<treeVars, langVars, textVars>>

\* the exported function parseDirectory(options): a new CodeParser
WrapperParseDirectory(options) ==
  \E out \in {parseDirectory(FreshEngine(JavaScript, TypeScript), options)} :
     /\ StoreWrapper(out.st)
     /\ last' = [NoCall EXCEPT !.op = "parseDirectory", !.engine = 0, !.arg = options,
                               !.threw = out.threw, !.caught = out.caught, !.result = out.result,
                               !.start = 1, !.steps = out.steps]
     /\ UNCHANGED <<treeVars, langVars, textVars>>

Next ==
  \/ \E e \in Engines, filePath \in FileArgs : ParseFile(e, filePath)
  \/ \E e \in Engines, options \in OptionArgs : ParseDirectory(e, options)
  \/ \E filePath \in FileArgs : WrapperParseFile(filePath)
  \/ \E options \in OptionArgs : WrapperParseDirectory(options)

NextGrammar ==
  \/ \E e \in Engines, language \in InitArgs : InitParser(e, language)
  \/ \E e \in Engines, filePath \in GrammarFileArgs : ParseFile(e, filePath)
  \/ \E filePath \in GrammarFileArgs : WrapperParseFile(filePath)

\* ------------------------------------------------------------------------
\* File text: strings are sequences of characters, offsets count from 0
\* ------------------------------------------------------------------------
\* String.prototype.substring(start, end)
substring(str, start, end) ==
  LET a == Max({0, Min({start, Len(str)})})
      b == Max({0, Min({end, Len(str)})})
  IN SubSeq(str, Min({a, b}) + 1, Max({a, b}))

\* fileContent.substring(0, pos).split('\n').length
lineNumberAt(content, pos) ==
  1 + Cardinality({i \in 1..Min({Max({pos, 0}), Len(content)}) : content[i] = "\n"})

\* does the literal lit stand in str at offset i
litAt(str, i, lit) ==
  /\ i >= 0
  /\ i + Len(lit) <= Len(str)
  /\ SubSeq(str, i + 1, i + Len(lit)) = lit

\* Map.prototype.set: a new key goes to the end of the iteration order, a
\* key already there keeps its place and takes the new value
mapSet(map, key, value) ==
  IF \E k \in 1..Len(map) : map[k].key = key
  THEN [k \in 1..Len(map) |-> IF map[k].key = key THEN [key |-> key, value |-> value]
                              ELSE map[k]]
  ELSE Append(map, [key |-> key, value |-> value])

mapHas(map, key) == \E k \in 1..Len(map) : map[k].key = key
mapGet(map, key) == map[CHOOSE k \in 1..Len(map) : map[k].key = key].value

\* ------------------------------------------------------------------------
\* Source pieces: the text of a construct together with its syntax tree
\* ------------------------------------------------------------------------
\* A piece is a token (anonymous, no node), a leaf node or a node made of
\* pieces.  SourceText gives the text of a piece, Layout the node the tree
\* producer returns for that text standing at offset base.
Tok(text) == [type |-> "", field |-> "", text |-> text, parts |-> <<>>]
Leaf(type, field, text) == [type |-> type, field |-> field, text |-> text, parts |-> <<>>]
Syn(type, field, parts) == [type |-> type, field |-> field, text |-> <<>>, parts |-> parts]

RECURSIVE SourceText(_)
SourceText(s) ==
  IF s.parts = <<>> THEN s.text
  ELSE LET Upto[i \in 0..Len(s.parts)] ==
             IF i = 0 THEN <<>> ELSE Upto[i - 1] \o SourceText(s.parts[i])
       IN Upto[Len(s.parts)]

\* a node with its byte offsets; text is kept for one-character nodes (the
\* names of this model's sources), as the string of that character
PosNode(type, field, text, kids, startPosition, endPosition) ==
  [type |-> type, field |-> field, text |-> text, kids |-> kids,
   startPosition |-> startPosition, endPosition |-> endPosition]

\* the nodes of the parts from index i on, the first of them standing at
\* offset base, after the nodes kids: a part stands where the text of the
\* parts before it ends, and a token makes no node
RECURSIVE Layout(_, _)
LayoutParts(parts, i, base, kids) ==
  LET nodes == {j \in i..Len(parts) : parts[j].type # ""}
      nth(m) == CHOOSE j \in nodes : Cardinality({k \in nodes : k < j}) = m - 1
      offset(j) == base + Len(SourceText(Syn("", "", SubSeq(parts, i, j - 1))))
  IN kids \o [m \in 1..Cardinality(nodes) |-> Layout(parts[nth(m)], offset(nth(m)))]

Layout(s, base) ==
  PosNode(s.type, s.field, IF Len(SourceText(s)) = 1 THEN SourceText(s)[1] ELSE "",
          LayoutParts(s.parts, 1, base, <<>>), base, base + Len(SourceText(s)))

\* node.text: the text the node spans
textOf(node, content) == substring(content, node.startPosition, node.endPosition)

\* ------------------------------------------------------------------------
\* Comments: buildCommentMap and findClosestComment
\* ------------------------------------------------------------------------
\* the end offset of the match of commentRegex that starts at offset i,
\* -1 when there is none:  /\*\*[\s\S]*?\*/  or  //[^\n]*
commentMatchEnd(content, i) ==
  LET closers == {k \in (i + 3)..(Len(content) - 2) : litAt(content, k, <<"*", "/">>)}
      newlines == {k \in (i + 2)..(Len(content) - 1) : content[k + 1] = "\n"}
  IN IF litAt(content, i, <<"/", "*", "*">>) /\ closers # {} THEN Min(closers) + 2
     ELSE IF litAt(content, i, <<"/", "/">>)
          THEN IF newlines = {} THEN Len(content) ELSE Min(newlines)
          ELSE -1

\* the loop of commentRegex.exec over the text, from offset i on: the next
\* match is the leftmost one
RECURSIVE regexComments(_, _, _)
regexComments(content, i, commentMap) ==
  LET starts == {k \in i..(Len(content) - 1) : commentMatchEnd(content, k) # -1}
  IN IF starts = {} THEN commentMap
     ELSE The({regexComments(content, commentEnd,
                             mapSet(commentMap, commentEnd,
                                    substring(content, Min(starts), commentEnd))) :
                 commentEnd \in {commentMatchEnd(content, Min(starts))}})

\* node.type === 'comment' || node.type.includes('comment'), over the node
\* kinds of the grammars
isCommentType(type) == type \in {"comment", "line_comment", "block_comment"}

\* processNode of buildCommentMap
RECURSIVE processNode(_, _, _), processChildren(_, _, _, _)
processChildren(node, content, i, commentMap) ==
  IF i > Len(node.kids) THEN commentMap
  ELSE The({processChildren(node, content, i + 1, after) :
              after \in {processNode(node.kids[i], content, commentMap)}})

processNode(node, content, commentMap) ==
  The({processChildren(node, content, 1, own) :
         own \in {IF isCommentType(node.type)
                  THEN mapSet(commentMap, node.endPosition, textOf(node, content))
                  ELSE commentMap}})

\* CodeParser.buildCommentMap: the entries in iteration order, key the end
\* offset of a comment and value its text
buildCommentMap(root, content) ==
  processNode(root, content, regexComments(content, 0, <<>>))

\* the line distance up to which a comment belongs to a node (exclusive)
CommentLineLimit == 10

\* the initial closestDistance
Infinity == 1000000

\* is a comment that far from the node considered: at any distance
withinLimit_any(distance) == distance >= 0

\* is a comment that far from the node considered
withinLimit(distance) == distance >= 0 /\ distance < CommentLineLimit

\* does a comment replace the closest one so far: also at the same distance
closer_orEqual(distance, closestDistance) == distance <= closestDistance

\* does a comment replace the closest one so far
closer(distance, closestDistance) == distance < closestDistance

\* what findClosestComment returns: null, or a comment text
NoComment == [hit |-> FALSE, text |-> <<>>]
SomeComment(text) == [hit |-> TRUE, text |-> text]

\* the loop of findClosestComment over commentMap.entries()
RECURSIVE closestFrom(_, _, _, _, _, _)
closestFrom(node, commentMap, content, k, closestComment, closestDistance) ==
  IF k > Len(commentMap) THEN closestComment
  ELSE LET distance == lineNumberAt(content, node.startPosition)
                         - lineNumberAt(content, commentMap[k].key)
       IN IF /\ commentMap[k].key < node.startPosition
             /\ withinLimit(distance)
             /\ closer(distance, closestDistance)
          THEN closestFrom(node, commentMap, content, k + 1,
                           SomeComment(commentMap[k].value), distance)
          ELSE closestFrom(node, commentMap, content, k + 1,
                           closestComment, closestDistance)

\* CodeParser.findClosestComment
findClosestComment(node, commentMap, content) ==
  IF node.startPosition = 0 THEN NoComment
  ELSE closestFrom(node, commentMap, content, 1, NoComment, Infinity)

\* ------------------------------------------------------------------------
\* SpecComment: a text grown piece by piece, then findClosestComment on one
\* of its function declarations
\* ------------------------------------------------------------------------
Newlines(n) == Tok([i \in 1..n |-> "\n"])

\* function f(){}
PlainFunction ==
  Syn("function_declaration", "",
      <<Tok(<<"f", "u", "n", "c", "t", "i", "o", "n", " ">>), Leaf("identifier", "name", <<"f">>),
        Syn("formal_parameters", "parameters", <<Tok(<<"(", ")">>)>>),
        Syn("statement_block", "body", <<Tok(<<"{", "}">>)>>)>>)

\* the pieces a text is grown from: a line comment, a documentation
\* comment, a block comment (a node of the tree, no match of commentRegex),
\* a string that holds two slashes (a match of commentRegex, no comment
\* node), runs of line breaks and a function declaration
CommentPieces ==
  { Leaf("comment", "", <<"/", "/", "a">>),
    Leaf("comment", "", <<"/", "*", "*", "b", "*", "/">>),
    Leaf("comment", "", <<"/", "*", "c", "*", "/">>),
    Syn("expression_statement", "", <<Leaf("string", "", <<"'", "/", "/", "s", "'">>)>>),
    Newlines(1), Newlines(3), Newlines(9),
    PlainFunction }

EmptyRoot == PosNode("program", "", "", <<>>, 0, 0)

\* the text and the tree with a further piece at the end
appendPiece(content, root, piece) ==
  [content |-> content \o SourceText(piece),
   root |-> [root EXCEPT !.kids = LayoutParts(<<piece>>, 1, Len(content), @),
                         !.endPosition = Len(content) + Len(SourceText(piece))]]

\* a further piece at the end of the text
AppendCommentPiece ==
  /\ subject = 0
  /\ pieces < MaxPieces
  /\ \E piece \in CommentPieces :
       \E file \in {appendPiece(fileContent, sourceRoot, piece)} :
          /\ fileContent' = file.content
          /\ sourceRoot' = file.root
  /\ pieces' = pieces + 1
  /\ UNCHANGED <<sourcePath, subject, closest, fileDecl, treeVars, langVars, engineVars>>

\* findClosestComment on a function declaration of the text
Associate ==
  /\ subject = 0
  /\ \E i \in 1..Len(sourceRoot.kids) :
       /\ sourceRoot.kids[i].type = "function_declaration"
       /\ subject' = i
       /\ closest' = findClosestComment(sourceRoot.kids[i],
                                      buildCommentMap(sourceRoot, fileContent), fileContent)
  /\ UNCHANGED <<fileContent, sourceRoot, pieces, sourcePath, fileDecl,
                 treeVars, langVars, engineVars>>

NextComment == AppendCommentPiece \/ Associate

\* ------------------------------------------------------------------------
\* Regular expressions of the type resolver, on sequences of characters
\* ------------------------------------------------------------------------
Digits == {"0", "1", "2", "3", "4", "5", "6", "7", "8", "9"}

\* \w and \s
WordChars ==
  {UpperChars[i] : i \in 1..Len(UpperChars)} \cup {LowerChars[i] : i \in 1..Len(LowerChars)}
    \cup Digits \cup {"_"}
isWord(c) == c \in WordChars
isSpace(c) == c \in {" ", "\n", "\t", "\r"}

\* the offset after the longest run of \s, of \w, from offset i on
skipSpaces(str, i) == Min({j \in i..Len(str) : j = Len(str) \/ ~isSpace(str[j + 1])})
skipWord(str, i) == Min({j \in i..Len(str) : j = Len(str) \/ ~isWord(str[j + 1])})

\* the offset of the first character c from offset i on, Len(str) when
\* there is none
firstOf(str, i, c) == Min({j \in i..Len(str) : j = Len(str) \/ str[j + 1] = c})

\* String.prototype.trim
trim(str) ==
  LET solid == {k \in 1..Len(str) : ~isSpace(str[k])}
  IN IF solid = {} THEN <<>> ELSE SubSeq(str, Min(solid), Max(solid))

\* String.prototype.split(c), c one character
split(str, c) ==
  LET seps == {k \in 1..Len(str) : str[k] = c}
      Nth(n) == IF n = 0 THEN 0
                ELSE IF n > Cardinality(seps) THEN Len(str) + 1
                ELSE CHOOSE k \in seps : Cardinality({j \in seps : j < k}) = n - 1
  IN [n \in 1..(Cardinality(seps) + 1) |-> SubSeq(str, Nth(n - 1) + 1, Nth(n) - 1)]

\* a match of a regular expression: does it match, where it ends, its groups
NoMatch == [ok |-> FALSE, end |-> 0, groups |-> <<>>]
Match(end, groups) == [ok |-> TRUE, end |-> end, groups |-> groups]

\* the loop  while ((match = regex.exec(str)) !== null)  of a global regular
\* expression, matchAt[i] being its match at offset i: the matches in order
RECURSIVE execAll(_, _)
execAll(matchAt, from) ==
  LET starts == {i \in DOMAIN matchAt : i >= from /\ matchAt[i].ok}
  IN IF starts = {} THEN <<>>
     ELSE <<matchAt[Min(starts)]>>
            \o execAll(matchAt, Max({matchAt[Min(starts)].end, Min(starts) + 1}))

\* paramRegex at offset i:  /@param\s+(?:\{([^}]+)\})?\s*(\w+)(?:\s+-\s*(.+))?/
\* groups: the type ("" without braces) and the name
paramTagAt(str, i) ==
  IF ~litAt(str, i, <<"@", "p", "a", "r", "a", "m">>) THEN NoMatch
  ELSE LET j1 == skipSpaces(str, i + 6)
           close == firstOf(str, j1 + 1, "}")
           braced == /\ j1 < Len(str) /\ str[j1 + 1] = "{"
                     /\ close < Len(str) /\ close >= j1 + 2
                     /\ skipWord(str, skipSpaces(str, close + 1)) > skipSpaces(str, close + 1)
           j3 == IF braced THEN skipSpaces(str, close + 1) ELSE j1
           j4 == skipWord(str, j3)
           dash == skipSpaces(str, j4)
           tail == /\ dash > j4 /\ dash < Len(str) /\ str[dash + 1] = "-"
                   /\ skipSpaces(str, dash + 1) < Len(str)
       IN IF j1 = i + 6 \/ j4 = j3 THEN NoMatch
          ELSE Match(IF tail THEN firstOf(str, skipSpaces(str, dash + 1), "\n") ELSE j4,
                     <<IF braced THEN trim(substring(str, j1 + 1, close)) ELSE <<>>,
                       substring(str, j3, j4)>>)

\* CodeParser.extractJSDocParamTypes: the map from parameter name to type
RECURSIVE setAll(_, _, _)
setAll(map, matches, k) ==
  IF k > Len(matches) THEN map
  ELSE setAll(mapSet(map, matches[k].groups[2], matches[k].groups[1]), matches, k + 1)

extractJSDocParamTypes(jsDoc) ==
  IF ~jsDoc.hit THEN <<>>
  ELSE setAll(<<>>, execAll([i \in 0..(Len(jsDoc.text) - 1) |-> paramTagAt(jsDoc.text, i)], 0), 1)

\* /@returns?\s+{([^}]+)}/i at offset i; group: the type
returnsTagAt(str, i) ==
  IF ~litAt(toLowerCase(str), i, <<"@", "r", "e", "t", "u", "r", "n">>) THEN NoMatch
  ELSE LET j0 == IF i + 7 < Len(str) /\ toLowerChar(str[i + 8]) = "s" THEN i + 8 ELSE i + 7
           j1 == skipSpaces(str, j0)
           close == firstOf(str, j1 + 1, "}")
       IN IF /\ j1 > j0 /\ j1 < Len(str) /\ str[j1 + 1] = "{"
             /\ close < Len(str) /\ close >= j1 + 2
          THEN Match(close + 1, <<substring(str, j1 + 1, close)>>)
          ELSE NoMatch

\* jsDoc.match(/@returns?\s+{([^}]+)}/i): the first match
returnsTag(str) ==
  LET starts == {i \in 0..(Len(str) - 1) : returnsTagAt(str, i).ok}
  IN IF starts = {} THEN NoMatch ELSE returnsTagAt(str, Min(starts))

\* the tail  \(([^)]*)\)\s*:\s*  of the three regular expressions of
\* extractDeclarations, at the offset i of the opening parenthesis: the
\* offset after it (-1 when it does not match) and the parameter text
signatureAt(str, i) ==
  LET close == firstOf(str, i + 1, ")")
      colon == skipSpaces(str, close + 1)
  IN IF /\ i < Len(str) /\ str[i + 1] = "(" /\ close < Len(str)
        /\ colon < Len(str) /\ str[colon + 1] = ":"
     THEN [end |-> skipSpaces(str, colon + 1), paramsStr |-> substring(str, i + 1, close)]
     ELSE [end |-> -1, paramsStr |-> <<>>]

\* functionRegex at offset i:
\*   /function\s+(\w+)\s*(?:<[^>]*>)?\s*\(([^)]*)\)\s*:\s*([^{]+)/
\* groups: the name, the parameter text, the return type text
functionRegexAt(str, i) ==
  IF ~litAt(str, i, <<"f", "u", "n", "c", "t", "i", "o", "n">>) THEN NoMatch
  ELSE LET j1 == skipSpaces(str, i + 8)
           j2 == skipWord(str, j1)
           j3 == skipSpaces(str, j2)
           gt == firstOf(str, j3 + 1, ">")
           generic == j3 < Len(str) /\ str[j3 + 1] = "<" /\ gt < Len(str)
                        /\ signatureAt(str, skipSpaces(str, gt + 1)).end # -1
           sig == signatureAt(str, IF generic THEN skipSpaces(str, gt + 1) ELSE j3)
           brace == firstOf(str, sig.end, "{")
       IN IF j1 = i + 8 \/ j2 = j1 \/ sig.end = -1 \/ brace = sig.end THEN NoMatch
          ELSE Match(brace, <<substring(str, j1, j2), sig.paramsStr,
                              substring(str, sig.end, brace)>>)

\* arrowRegex at offset i:
\*   /(?:const|let|var)\s+(\w+)\s*=\s*\(([^)]*)\)\s*:\s*([^=]+?)\s*=>/
arrowRegexAt(str, i) ==
  LET keywords == {kw \in {<<"c", "o", "n", "s", "t">>, <<"l", "e", "t">>, <<"v", "a", "r">>} : litAt(str, i, kw)}
  IN IF keywords = {} THEN NoMatch
     ELSE LET j0 == i + Len(The(keywords))
              j1 == skipSpaces(str, j0)
              j2 == skipWord(str, j1)
              eq == skipSpaces(str, j2)
              sig == signatureAt(str, skipSpaces(str, eq + 1))
              arrow == firstOf(str, sig.end, "=")
          IN IF \/ j1 = j0 \/ j2 = j1 \/ eq >= Len(str) \/ str[eq + 1] # "="
                \/ sig.end = -1 \/ arrow = sig.end \/ ~litAt(str, arrow, <<"=", ">">>)
             THEN NoMatch
             ELSE Match(arrow + 2, <<substring(str, j1, j2), sig.paramsStr,
                                     substring(str, sig.end, arrow)>>)

\* is offset i a word boundary (\b)
wordBoundary(str, i) ==
  (i > 0 /\ isWord(str[i])) # (i < Len(str) /\ isWord(str[i + 1]))

\* classMethodRegex at offset i:
\*   /\b(public|private|protected)?\s*(\w+)\s*\(([^)]*)\)\s*:\s*([^{]+)/
\* groups: the name, the parameter text, the return type text
classMethodFrom(str, j0) ==
  LET j1 == skipSpaces(str, j0)
      j2 == skipWord(str, j1)
      sig == signatureAt(str, skipSpaces(str, j2))
      brace == firstOf(str, sig.end, "{")
  IN IF j2 = j1 \/ sig.end = -1 \/ brace = sig.end THEN NoMatch
     ELSE Match(brace, <<substring(str, j1, j2), sig.paramsStr,
                         substring(str, sig.end, brace)>>)

classMethodRegexAt(str, i) ==
  LET modifiers == {md \in {<<"p", "u", "b", "l", "i", "c">>, <<"p", "r", "i", "v", "a", "t", "e">>, <<"p", "r", "o", "t", "e", "c", "t", "e", "d">>} : litAt(str, i, md)}
  IN IF ~wordBoundary(str, i) THEN NoMatch
     ELSE IF modifiers # {} /\ classMethodFrom(str, i + Len(The(modifiers))).ok
          THEN classMethodFrom(str, i + Len(The(modifiers)))
          ELSE classMethodFrom(str, i)

\* ------------------------------------------------------------------------
\* Type resolver: extractParameters, extractReturnType and the type
\* information extractDeclarations reads from the text of TypeScript files
\* ------------------------------------------------------------------------
hasField(node, f) == fieldIndex(node, f) # 0
fieldChild(node, f) == node.kids[fieldIndex(node, f)]

\* extractParameters.extractTypeAnnotation
extractTypeAnnotation(typeNode, content) ==
  LET typeText == trim(textOf(typeNode, content))
  IN IF Len(typeText) > 0 /\ typeText[1] = ":" THEN trim(Tail(typeText)) ELSE typeText

\* the type annotation under the field 'type' of a node, "" without one
annotationOf(node, content) ==
  IF hasField(node, "type") THEN extractTypeAnnotation(fieldChild(node, "type"), content)
  ELSE <<>>

ParameterInfo(name, type, optional) == [name |-> name, type |-> type, optional |-> optional]

\* the forms of a parameter in extractParameters: paramName, paramType and
\* isOptional before the documentation comment is looked at
parameterForm(param, content) ==
  CASE param.type = "identifier" ->
         ParameterInfo(textOf(param, content), annotationOf(param, content), FALSE)
    [] param.type = "assignment_pattern" ->
         IF hasField(param, "left")
         THEN ParameterInfo(textOf(fieldChild(param, "left"), content),
                            annotationOf(fieldChild(param, "left"), content), TRUE)
         ELSE ParameterInfo(<<>>, <<>>, FALSE)
    [] param.type = "rest_parameter" ->
         IF Len(param.kids) > 0
         THEN ParameterInfo(textOf(param.kids[1], content),
                            IF hasField(param, "type") THEN annotationOf(param, content)
                            ELSE <<"r", "e", "s", "t">>, FALSE)
         ELSE ParameterInfo(<<>>, <<>>, FALSE)
    [] param.type = "object_pattern" ->
         ParameterInfo(<<"{">> \o textOf(param, content) \o <<"}">>, <<"o", "b", "j", "e", "c", "t">>, FALSE)
    [] param.type = "array_pattern" ->
         ParameterInfo(<<"[">> \o textOf(param, content) \o <<"]">>, <<"a", "r", "r", "a", "y">>, FALSE)
    [] param.type = "required_parameter" ->
         ParameterInfo(IF hasField(param, "pattern")
                       THEN textOf(fieldChild(param, "pattern"), content) ELSE <<>>,
                       annotationOf(param, content), FALSE)
    [] param.type = "optional_parameter" ->
         ParameterInfo(IF hasField(param, "pattern")
                       THEN textOf(fieldChild(param, "pattern"), content) ELSE <<>>,
                       annotationOf(param, content), hasField(param, "pattern"))
    [] param.type = "parameter" ->
         ParameterInfo(IF hasField(param, "pattern")
                       THEN textOf(fieldChild(param, "pattern"), content)
                       ELSE IF Len(param.kids) > 0 THEN textOf(param.kids[1], content)
                       ELSE <<>>,
                       annotationOf(param, content), hasField(param, "question"))
    [] OTHER -> ParameterInfo(<<>>, <<>>, FALSE)

\* the named children of the formal parameters node extractParameters
\* finds for a node, none when it finds no such node
formalParams(node) ==
  LET of(n) == IF hasField(n, "parameters") THEN fieldChild(n, "parameters").kids ELSE <<>>
  IN CASE node.type \in {"function_declaration", "method_definition", "method_signature",
                         "arrow_function", "function", "function_type"} -> of(node)
       [] node.type = "variable_declarator" ->
            IF fieldType(node, "value") \in {"arrow_function", "function"}
            THEN of(fieldChild(node, "value")) ELSE <<>>
       [] node.type = "property_signature" ->
            IF fieldType(node, "type") = "function_type"
            THEN of(fieldChild(node, "type")) ELSE <<>>
       [] OTHER -> <<>>

\* does the type of the documentation comment go to a parameter: the
\* parameter has a name, the map an entry for it, and no type was found
usesDocType(param, paramTypesMap) ==
  param.name # <<>> /\ mapHas(paramTypesMap, param.name) /\ param.type = <<>>

\* CodeParser.extractParameters
extractParameters(node, content, jsDoc) ==
  LET paramTypesMap == extractJSDocParamTypes(jsDoc)
      merged(param) == IF usesDocType(param, paramTypesMap)
                       THEN [param EXCEPT !.type = mapGet(paramTypesMap, param.name)]
                       ELSE param
      params == formalParams(node)
  IN SelectSeq([i \in 1..Len(params) |-> merged(parameterForm(params[i], content))],
               LAMBDA param : param.name # <<>>)

\* a return type: undefined, or a string
Undefined == [has |-> FALSE, text |-> <<>>]
Defined(text) == [has |-> TRUE, text |-> text]

\* !returnType
isFalsy(returnType) == ~returnType.has \/ returnType.text = <<>>

\* extractReturnType.cleanTypeAnnotation
cleanTypeAnnotation(typeText) ==
  LET cleanType == trim(typeText)
  IN IF Len(cleanType) > 0 /\ cleanType[1] = ":" THEN trim(Tail(cleanType)) ELSE cleanType

\* extractReturnType.extractTypeFromNode
extractTypeFromNode(node, content) ==
  LET fields == {f \in {"return_type", "type_annotation", "type"} : hasField(node, f)}
      first == IF "return_type" \in fields THEN "return_type"
               ELSE IF "type_annotation" \in fields THEN "type_annotation" ELSE "type"
  IN IF fields = {} THEN Undefined
     ELSE Defined(cleanTypeAnnotation(textOf(fieldChild(node, first), content)))

\* the explicit return type in the code, the first half of extractReturnType
explicitReturnType(node, content) ==
  CASE node.type \in {"function_declaration", "method_definition", "method_signature",
                      "arrow_function", "function"} -> extractTypeFromNode(node, content)
    [] node.type = "variable_declarator" ->
         IF fieldType(node, "value") \in {"arrow_function", "function"}
         THEN extractTypeFromNode(fieldChild(node, "value"), content) ELSE Undefined
    [] node.type = "property_signature" ->
         IF fieldType(node, "type") = "function_type"
         THEN IF hasField(fieldChild(node, "type"), "return_type")
              THEN Defined(cleanTypeAnnotation(
                     textOf(fieldChild(fieldChild(node, "type"), "return_type"), content)))
              ELSE Undefined
         ELSE extractTypeFromNode(node, content)
    [] node.type = "function_type" ->
         IF hasField(node, "return_type")
         THEN Defined(cleanTypeAnnotation(textOf(fieldChild(node, "return_type"), content)))
         ELSE Undefined
    [] OTHER -> Undefined

\* the return type a documentation comment gives (the @returns tag), the
\* second half of extractReturnType
docReturnType(returnType, jsDoc) ==
  IF isFalsy(returnType) /\ jsDoc.hit /\ jsDoc.text # <<>>
       /\ returnsTag(jsDoc.text).ok
  THEN Defined(trim(returnsTag(jsDoc.text).groups[1]))
  ELSE returnType

\* CodeParser.extractReturnType
extractReturnType(node, content, jsDoc) ==
  docReturnType(explicitReturnType(node, content), jsDoc)

\* is this a TypeScript file by extension
isTypeScript(filePath) ==
  \/ litAt(filePath, Len(filePath) - 3, <<".", "t", "s">>)
  \/ litAt(filePath, Len(filePath) - 4, <<".", "t", "s", "x">>)

\* paramsStr.split(',').forEach(...): the types of the parameters by name
RECURSIVE splitParams(_, _, _)
splitParams(params, sections, k) ==
  IF k > Len(sections) THEN params
  ELSE LET parts == split(trim(sections[k]), ":")
       IN splitParams(IF Len(parts) >= 2 THEN mapSet(params, trim(parts[1]), trim(parts[2]))
                      ELSE params,
                      sections, k + 1)

\* typeInfo[name] = { params, returnType }  for the matches of one of the
\* three regular expressions, in order
RECURSIVE setTypeInfo(_, _, _)
setTypeInfo(typeInfo, matches, k) ==
  IF k > Len(matches) THEN typeInfo
  ELSE setTypeInfo(
         IF matches[k].skip THEN typeInfo
         ELSE mapSet(typeInfo, matches[k].groups[1],
                     [params |-> splitParams(<<>>, split(matches[k].groups[2], ","), 1),
                      returnType |-> trim(matches[k].groups[3])]),
         matches, k + 1)

\* the matches of a regular expression over the text; those of
\* classMethodRegex that name the constructor are skipped
matchesOf(matchAt, skipConstructor) ==
  LET matches == execAll(matchAt, 0)
  IN [k \in 1..Len(matches) |->
        [groups |-> matches[k].groups,
         skip |-> skipConstructor /\ matches[k].groups[1] = <<"c", "o", "n", "s", "t", "r", "u", "c", "t", "o", "r">>]]

\* the type information extractDeclarations reads from the text
typeInfoOf(filePath, content) ==
  IF ~isTypeScript(filePath) THEN <<>>
  ELSE LET offsets == 0..(Len(content) - 1)
       IN setTypeInfo(
            setTypeInfo(
              setTypeInfo(<<>>,
                matchesOf([i \in offsets |-> functionRegexAt(content, i)], FALSE), 1),
              matchesOf([i \in offsets |-> arrowRegexAt(content, i)], FALSE), 1),
            matchesOf([i \in offsets |-> classMethodRegexAt(content, i)], TRUE), 1)

\* the parameters after the type information of the text is laid over them
withTypeInfoParams(params, info) ==
  [i \in 1..Len(params) |->
     IF /\ params[i].name # <<>> /\ mapHas(info.params, params[i].name)
        /\ mapGet(info.params, params[i].name) # <<>>
     THEN [params[i] EXCEPT !.type = mapGet(info.params, params[i].name)]
     ELSE params[i]]

\* the return type after the type information of the text is laid over it
withTypeInfoReturn(returnType, info) ==
  IF info.returnType # <<>> /\ isFalsy(returnType) THEN Defined(info.returnType)
  ELSE returnType

\* a name of a record (a string of one character) as a key of typeInfo
keyOf(name) == <<name>>

\* the fields a visitor gives a record besides its id and name: named is
\* the node the name and the line come from, typed the node the parameters
\* and the return type come from
DetailsOf(named, typed, name, filePath, content, commentMap, typeInfo) ==
  LET jsDoc == findClosestComment(named, commentMap, content)
      params == extractParameters(typed, content, jsDoc)
      returnType == extractReturnType(typed, content, jsDoc)
      known == isTypeScript(filePath) /\ mapHas(typeInfo, keyOf(name))
  IN [lineNo |-> lineNumberAt(content, named.startPosition),
      parameters |-> IF known THEN withTypeInfoParams(params, mapGet(typeInfo, keyOf(name)))
                     ELSE params,
      returnType |-> IF known THEN withTypeInfoReturn(returnType, mapGet(typeInfo, keyOf(name)))
                     ELSE returnType]

\* a function record with all its fields
FullRecord(rec, details) ==
  [id |-> rec.id, functionName |-> rec.functionName, node |-> rec.node,
   lineNo |-> details.lineNo, parameters |-> details.parameters,
   returnType |-> details.returnType]

\* the node the parameters and the return type of a member of a class
\* body come from: the value of a property definition, else the member
typedNodeOf(child) ==
  IF child.type = "property_definition" THEN fieldChild(child, "value") ELSE child

\* CodeParser.getClassSignature
getClassSignature(node, content) ==
  IF node.type # "class_declaration" THEN <<>>
  ELSE IF hasField(node, "body")
       THEN trim(substring(content, node.startPosition, fieldChild(node, "body").startPosition))
       ELSE <<"c", "l", "a", "s", "s", " ">> \o keyOf(getNodeName(node))

\* the records of the walk, each with the fields its visitor computes
recordsOf(rootNode, filePath, content, acc, commentMap, typeInfo) ==
  LET functionOf(rec) ==
        FullRecord(rec, DetailsOf(NodeAt(rootNode, rec.node), NodeAt(rootNode, rec.node),
                                  rec.functionName, filePath, content, commentMap, typeInfo))
      methodOf(rec) ==
        FullRecord(rec, DetailsOf(NodeAt(rootNode, rec.node),
                                  typedNodeOf(NodeAt(rootNode, rec.node)),
                                  rec.functionName, filePath, content, commentMap, typeInfo))
  IN [functions |-> [i \in 1..Len(acc.functions) |-> functionOf(acc.functions[i])],
      classes |-> [i \in 1..Len(acc.classes) |->
                     [id |-> acc.classes[i].id, className |-> acc.classes[i].className,
                      node |-> acc.classes[i].node,
                      lineNo |-> lineNumberAt(content,
                                   NodeAt(rootNode, acc.classes[i].node).startPosition),
                      signature |-> getClassSignature(NodeAt(rootNode, acc.classes[i].node),
                                                      content),
                      methods |-> [j \in 1..Len(acc.classes[i].methods) |->
                                     methodOf(acc.classes[i].methods[j])]]],
      idCounter |-> acc.idCounter]

\* CodeParser.extractDeclarations with the fields of the records: the
\* comment map and the typeInfo table are built first, then the walk makes
\* the records
extractDeclarationsFull(rootNode, filePath, content, counter) ==
  The({recordsOf(rootNode, filePath, content, acc, commentMap, typeInfo) :
         acc \in {extractDeclarations(rootNode, counter)},
         commentMap \in {buildCommentMap(rootNode, content)},
         typeInfo \in {typeInfoOf(filePath, content)}})

\* ------------------------------------------------------------------------
\* Dependency inference of the dependency mode (--dependencies): for each
\* function of the flat list of a file, the ids of the other functions
\* whose names occur, call-shaped, within its approximate body span
\* ------------------------------------------------------------------------
\* does a pattern that approximates the start of the declaration of name
\* match at offset i: a function declaration, a class declaration, or an
\* assignment of a function expression
declarationAt(content, i, name) ==
  LET afterKeyword(kw) ==
        /\ litAt(content, i, kw)
        /\ skipSpaces(content, i + Len(kw)) > i + Len(kw)
        /\ litAt(content, skipSpaces(content, i + Len(kw)), name)
        /\ skipWord(content, skipSpaces(content, i + Len(kw))) =
             skipSpaces(content, i + Len(kw)) + Len(name)
      eq == skipSpaces(content, i + Len(name))
      value == skipSpaces(content, eq + 1)
  IN \/ afterKeyword(<<"f", "u", "n", "c", "t", "i", "o", "n">>)
     \/ afterKeyword(<<"c", "l", "a", "s", "s">>)
     \/ /\ litAt(content, i, name)
        /\ skipWord(content, i) = i + Len(name)
        /\ eq < Len(content) /\ content[eq + 1] = "="
        /\ (litAt(content, value, <<"f", "u", "n", "c", "t", "i", "o", "n">>) \/ litAt(content, value, <<"(">>))

\* the offset of the first such match, -1 when there is none
declarationStart(content, name) ==
  LET starts == {i \in 0..(Len(content) - 1) : declarationAt(content, i, name)}
  IN IF starts = {} THEN -1 ELSE Min(starts)

\* the end of the span that starts at offset start: after the brace that
\* closes the first brace opened from there on; the end of the text when
\* the braces are not balanced
spanEnd(content, start) ==
  LET open == firstOf(content, start, "{")
      count(k, c) == Cardinality({j \in open..k : content[j + 1] = c})
      closing == {k \in (open + 1)..(Len(content) - 1) :
                    content[k + 1] = "}" /\ count(k, "{") = count(k, "}")}
  IN IF closing = {} THEN Len(content) ELSE Min(closing) + 1

\* the approximate body span of the function called name, the empty text
\* when no pattern matches
bodySpan(content, name) ==
  IF declarationStart(content, name) = -1 THEN <<>>
  ELSE substring(content, declarationStart(content, name),
                 spanEnd(content, declarationStart(content, name)))

\* does name occur in the span followed by a blank and an opening parenthesis
isCalledIn_spaced(span, name) ==
  \E i \in 0..(Len(span) - 1) : litAt(span, i, name \o <<" ", "(">>)

\* does name occur in the span followed by an opening parenthesis
isCalledIn(span, name) ==
  \E i \in 0..(Len(span) - 1) : litAt(span, i, name \o <<"(">>)

\* the dependency set of function number a of the list
dependOnOf(functions, a, content) ==
  {functions[b].id : b \in {k \in 1..Len(functions) :
                              /\ k # a
                              /\ isCalledIn(bodySpan(content, keyOf(functions[a].functionName)),
                                            keyOf(functions[k].functionName))}}

\* the functions of a file with their dependency sets
calculateDependencies(functions, content) ==
  [a \in 1..Len(functions) |->
     [id |-> functions[a].id, functionName |-> functions[a].functionName,
      node |-> functions[a].node, lineNo |-> functions[a].lineNo,
      parameters |-> functions[a].parameters, returnType |-> functions[a].returnType,
      dependOn |-> dependOnOf(functions, a, content)]]

\* ------------------------------------------------------------------------
\* SpecTypes: a JavaScript or TypeScript file grown piece by piece, then
\* its declarations extracted and, in the dependency mode, the dependency
\* sets of its functions inferred
\* ------------------------------------------------------------------------
TypedPaths == {<<"m", ".", "j", "s">>, <<"m", ".", "t", "s">>}

\* a parameter as the grammar of the file gives it: an identifier in
\* JavaScript, a required_parameter (with its annotation, if any) in TypeScript
Param(filePath, name, annotation) ==
  IF ~isTypeScript(filePath) THEN Leaf("identifier", "", name)
  ELSE Syn("required_parameter", "",
           <<Leaf("identifier", "pattern", name)>>
             \o (IF annotation = <<>> THEN <<>>
                 ELSE <<Leaf("type_annotation", "type", annotation)>>))

\* ( a )  and  ( a , b = 1 )
Params(params) ==
  Syn("formal_parameters", "parameters", <<Tok(<<"(">>)>> \o params \o <<Tok(<<")">>)>>)

ReturnAnnotation(annotation) ==
  IF annotation = <<>> THEN <<>> ELSE <<Leaf("type_annotation", "return_type", annotation)>>

Body(stmts) == Syn("statement_block", "body", <<Tok(<<"{">>)>> \o stmts \o <<Tok(<<"}">>)>>)

\* f(a);
CallOf(name, arg) ==
  Syn("expression_statement", "",
      <<Syn("call_expression", "",
            <<Leaf("identifier", "function", name),
              Syn("arguments", "arguments",
                  <<Tok(<<"(">>), Leaf("identifier", "", arg), Tok(<<")">>)>>)>>)>>)

\* function name(params): returns { stmts }
TypedFunction(name, params, returns, stmts) ==
  Syn("function_declaration", "",
      <<Tok(<<"f", "u", "n", "c", "t", "i", "o", "n", " ">>), Leaf("identifier", "name", name), Params(params)>>
        \o ReturnAnnotation(returns) \o <<Body(stmts)>>)

\* class C { name(params): returns {} }
TypedClass(name, params, returns) ==
  Syn("class_declaration", "",
      <<Tok(<<"c", "l", "a", "s", "s", " ">>), Leaf("type_identifier", "name", <<"C">>),
        Syn("class_body", "body",
            <<Tok(<<"{">>),
              Syn("method_definition", "",
                  <<Leaf("property_identifier", "name", name), Params(params)>>
                    \o ReturnAnnotation(returns) \o <<Body(<<>>)>>),
              Tok(<<"}">>)>>)>>)

\* const name = (params): returns => a
TypedArrow(name, params, returns) ==
  Syn("lexical_declaration", "",
      <<Tok(<<"c", "o", "n", "s", "t", " ">>),
        Syn("variable_declarator", "",
            <<Leaf("identifier", "name", name), Tok(<<"=">>),
              Syn("arrow_function", "value",
                  <<Params(params)>> \o ReturnAnnotation(returns)
                    \o <<Tok(<<"=", ">">>), Leaf("identifier", "body", <<"a">>)>>)>>)>>)

\* b = 1  as a parameter: an assignment_pattern in JavaScript, a
\* required_parameter with a value in TypeScript
DefaultParam(filePath, name) ==
  IF ~isTypeScript(filePath)
  THEN Syn("assignment_pattern", "",
           <<Leaf("identifier", "left", name), Tok(<<"=">>), Leaf("number", "right", <<"1">>)>>)
  ELSE Syn("required_parameter", "",
           <<Leaf("identifier", "pattern", name), Tok(<<"=">>), Leaf("number", "value", <<"1">>)>>)

\* the pieces a file is grown from: documentation comments with @param
\* and @returns tags, a line break, and function, method and arrow function
\* declarations, with type annotations in a TypeScript file
TypedPieces(filePath) ==
  { Leaf("comment", "", <<"/", "*", "*", "@", "p", "a", "r", "a", "m", " ", "{", "n", "}", " ", "a", " ", "@", "r", "e", "t", "u", "r", "n", "s", " ", "{", "n", "}", "*", "/">>),
    Leaf("comment", "", <<"/", "*", "*", "@", "p", "a", "r", "a", "m", " ", "a", "*", "/">>),
    Newlines(1),
    TypedFunction(<<"f">>, <<Param(filePath, <<"a">>, <<>>)>>, <<>>, <<>>),
    TypedFunction(<<"m">>, <<Param(filePath, <<"a">>, <<>>), Tok(<<",">>),
                          DefaultParam(filePath, <<"b">>)>>, <<>>,
                  <<CallOf(<<"f">>, <<"a">>)>>),
    TypedArrow(<<"h">>, <<Param(filePath, <<"a">>, <<>>)>>, <<>>) }
  \cup
  (IF ~isTypeScript(filePath)
   THEN { TypedClass(<<"f">>, <<Param(filePath, <<"a">>, <<>>)>>, <<>>) }
   ELSE { TypedFunction(<<"f">>, <<Param(filePath, <<"a">>, <<":", "s">>)>>, <<":", "v">>, <<>>),
          TypedFunction(<<"g">>, <<Param(filePath, <<"a">>, <<":", "M", "<", "s", ",", "n", ">">>)>>, <<":", "v">>, <<>>),
          TypedClass(<<"f">>, <<Param(filePath, <<"a">>, <<":", "n">>)>>, <<":", "s">>),
          TypedArrow(<<"h">>, <<Param(filePath, <<"a">>, <<":", "s">>)>>, <<":", "v">>) })

\* no file parsed yet
NoFile == [done |-> FALSE, calculateDependencies |-> FALSE,
           functions |-> <<>>, classes |-> <<>>]

\* the file to parse is chosen
OpenFile(filePath) ==
  /\ sourcePath = <<>>
  /\ sourcePath' = filePath
  /\ UNCHANGED <<fileContent, sourceRoot, pieces, subject, closest, fileDecl,
                 treeVars, langVars, engineVars>>

\* a further piece at the end of the file
AppendTypedPiece ==
  /\ sourcePath # <<>>
  /\ ~fileDecl.done
  /\ pieces < MaxTypedPieces
  /\ \E piece \in TypedPieces(sourcePath) :
       \E file \in {appendPiece(fileContent, sourceRoot, piece)} :
          /\ fileContent' = file.content
          /\ sourceRoot' = file.root
  /\ pieces' = pieces + 1
  /\ UNCHANGED <<sourcePath, subject, closest, fileDecl, treeVars, langVars, engineVars>>

\* the file is parsed: extractDeclarations on its tree and text
ParseTypedFile ==
  /\ sourcePath # <<>>
  /\ ~fileDecl.done
  /\ \E out \in {extractDeclarationsFull(sourceRoot, sourcePath, fileContent, 1)} :
       fileDecl' = [done |-> TRUE, calculateDependencies |-> FALSE,
                    functions |-> out.functions, classes |-> out.classes]
  /\ UNCHANGED <<fileContent, sourceRoot, pieces, sourcePath, subject, closest,
                 treeVars, langVars, engineVars>>

\* the dependency mode: the dependency sets of the functions of the parsed
\* file, a pass over the list of functions and the text of the file
InferDependencies ==
  /\ fileDecl.done
  /\ ~fileDecl.calculateDependencies
  /\ fileDecl' = [fileDecl EXCEPT
                    !.calculateDependencies = TRUE,
                    !.functions = calculateDependencies(fileDecl.functions, fileContent)]
  /\ UNCHANGED <<fileContent, sourceRoot, pieces, sourcePath, subject, closest,
                 treeVars, langVars, engineVars>>

NextTypes ==
  \/ \E filePath \in TypedPaths : OpenFile(filePath)
  \/ AppendTypedPiece
  \/ ParseTypedFile
  \/ InferDependencies

\* ------------------------------------------------------------------------
\* SpecShapes: files of class-like declarations and of functions with
\* destructured parameters, grown piece by piece, then parsed
\* ------------------------------------------------------------------------
\* class D extends C {}
HeritageClass ==
  Syn("class_declaration", "",
      <<Tok(<<"c", "l", "a", "s", "s", " ">>), Leaf("type_identifier", "name", <<"D">>), Tok(<<" ">>),
        Syn("class_heritage", "", <<Tok(<<"e", "x", "t", "e", "n", "d", "s", " ">>), Leaf("identifier", "", <<"C">>)>>),
        Tok(<<" ">>), Syn("class_body", "body", <<Tok(<<"{", "}">>)>>)>>)

\* enum E{A}
EnumPiece ==
  Syn("enum_declaration", "",
      <<Tok(<<"e", "n", "u", "m", " ">>), Leaf("identifier", "name", <<"E">>),
        Syn("enum_body", "body",
            <<Tok(<<"{">>), Leaf("property_identifier", "name", <<"A">>), Tok(<<"}">>)>>)>>)

\* a destructured parameter as the grammar of the file gives it: the
\* pattern itself in JavaScript, a required_parameter around it in TypeScript
PatternParam(filePath, type, text) ==
  IF ~isTypeScript(filePath) THEN Leaf(type, "", text)
  ELSE Syn("required_parameter", "", <<Leaf(type, "pattern", text)>>)

\* the pieces: classes, an enum (TypeScript), functions with an object
\* pattern and with an array pattern as parameter, a line break
ShapePieces(filePath) ==
  { TypedClass(<<"f">>, <<Param(filePath, <<"a">>, <<>>)>>, <<>>),
    HeritageClass,
    TypedFunction(<<"d">>, <<PatternParam(filePath, "object_pattern", <<"{", "a", ",", "b", "}">>)>>, <<>>, <<>>),
    TypedFunction(<<"e">>, <<PatternParam(filePath, "array_pattern", <<"[", "a", ",", "b", "]">>)>>, <<>>, <<>>),
    Newlines(1) }
  \cup (IF isTypeScript(filePath) THEN {EnumPiece} ELSE {})

\* a further piece at the end of the file
AppendShapePiece ==
  /\ sourcePath # <<>>
  /\ ~fileDecl.done
  /\ pieces < MaxTypedPieces
  /\ \E piece \in ShapePieces(sourcePath) :
       \E file \in {appendPiece(fileContent, sourceRoot, piece)} :
          /\ fileContent' = file.content
          /\ sourceRoot' = file.root
  /\ pieces' = pieces + 1
  /\ UNCHANGED <<sourcePath, subject, closest, fileDecl, treeVars, langVars, engineVars>>

NextShapes ==
  \/ \E filePath \in TypedPaths : OpenFile(filePath)
  \/ AppendShapePiece
  \/ ParseTypedFile

\* ------------------------------------------------------------------------
\* SpecCalls: calls of parseFile and parseDirectory in flight on one engine.
\* A call runs from one await to the next without interruption; at an await
\* it is suspended and any other call may start or go on.
\* ------------------------------------------------------------------------
\* the engine the calls are made on
CallEngine == CHOOSE e \in Engines : TRUE

\* the paths parseFile is called with
CallFileArgs == {<<"p", "/", "a", ".", "j", "s">>, <<"p", "/", "b", ".", "t", "s">>, <<"p", "/", "R", ".", "m", "d">>, <<"p", "/", "k", ".", "g", "o">>}

\* the options parseDirectory is called with
CallOptionArgs ==
  { Options(<<"p">>, {<<".", "j", "s">>, <<".", "t", "s">>}), Options(<<"n">>, {}), Options(<<"m">>, {<<".", "j", "s">>}) }

\* a call: where it is suspended (pc), for parseDirectory the files found,
\* the index of the file at hand and the array built so far; the outcome of
\* the initParser it awaits (ip) and the handle that initParser activated;
\* the FileDeclaration of the parseFile it awaits (pending); and for every
\* file it parsed the handle its initParser activated and the language
\* active when parser.parse ran (parsed)
NewCall(op, arg) ==
  [op |-> op, arg |-> arg, pc |-> "done", files |-> <<>>, next |-> 1, result |-> <<>>,
   ip |-> [threw |-> FALSE, hit |-> FALSE, required |-> FALSE], handle |-> None,
   pending |-> <<>>, parsed |-> <<>>]

\* parseFile up to its await: it returns at once on a file without grammar,
\* else initParser runs (it has no await of its own) and the call is
\* suspended at `await this.initParser(language)`
beginParseFile(st, filePath) ==
  IF getLanguageForFile(filePath) \in skipLanguages
  THEN [st |-> st, suspended |-> FALSE,
        ip |-> [threw |-> FALSE, hit |-> FALSE, required |-> FALSE]]
  ELSE The({[st |-> ip.st, suspended |-> TRUE,
             ip |-> [threw |-> ip.threw, hit |-> ip.hit, required |-> ip.required]] :
              ip \in {initParser(st, getLanguageForFile(filePath))}})

\* parseFile from its await on, on the engine as it is by then: the read,
\* parser.parse with the language active now, the traversal, the catch
resumeParseFile(st, ip, filePath) ==
  catchParseFile(parseFileWith([st |-> st, threw |-> ip.threw, hit |-> ip.hit,
                                required |-> ip.required], filePath), filePath)

\* the loop of parseDirectory at the file of index call.next: the call of
\* parseFile up to its await, or the return after the last file
nextFile(st, call) ==
  IF call.next > Len(call.files) THEN [st |-> st, call |-> [call EXCEPT !.pc = "done"]]
  ELSE The({[st |-> b.st,
             call |-> IF b.suspended
                      THEN [call EXCEPT !.pc = "awaitInit", !.ip = b.ip,
                                        !.handle = b.st.plang]
                      ELSE [call EXCEPT !.pc = "awaitFile",
                              !.pending = <<FileDeclaration(call.files[call.next],
                                                            <<>>, <<>>)>>]] :
              b \in {beginParseFile(st, call.files[call.next])}})

\* parseDirectory from findFiles on, found being what findFiles did: the
\* catch clause returns [] when it threw
afterFindFiles(st, call, found) ==
  IF found.threw THEN [st |-> st, call |-> [call EXCEPT !.pc = "done", !.result = <<>>]]
  ELSE nextFile(st, [call EXCEPT !.files = found.files, !.next = 1])

\* the engine after a step of a call
StoreCall(st) ==
  /\ JavaScript' = st.js
  /\ TypeScript' = st.ts
  /\ languageModules' = [languageModules EXCEPT ![CallEngine] = st.cache]
  /\ parserLanguage' = [parserLanguage EXCEPT ![CallEngine] = st.plang]
  /\ idCounter' = [idCounter EXCEPT ![CallEngine] = st.counter]
  /\ UNCHANGED <<soloJavaScript, soloTypeScript, soloModules, last,
                 treeVars, langVars, textVars>>

\* engine.parseFile(filePath) is called: it runs up to its await
StartParseFile(filePath) ==
  /\ Len(calls) < MaxCalls
  /\ \E b \in {beginParseFile(EngineOf(CallEngine), filePath)} :
       /\ StoreCall(b.st)
       /\ calls' = Append(calls,
            IF b.suspended
            THEN [NewCall("parseFile", filePath) EXCEPT
                    !.pc = "awaitInit", !.ip = b.ip, !.handle = b.st.plang]
            ELSE [NewCall("parseFile", filePath) EXCEPT
                    !.result = <<FileDeclaration(filePath, <<>>, <<>>)>>])

\* a parseFile goes on after `await this.initParser(language)`: that of a
\* parseFile call returns; that of a parseDirectory call returns to the
\* loop, which is suspended at `await this.parseFile(file)`
ResumeParseFile(k) ==
  /\ calls[k].pc = "awaitInit"
  /\ LET call == calls[k]
         filePath == IF call.op = "parseFile" THEN call.arg ELSE call.files[call.next]
     IN \E out \in {resumeParseFile(EngineOf(CallEngine), call.ip, filePath)} :
          /\ out.st.counter <= MaxId
          /\ StoreCall(out.st)
          /\ \E parsed \in {IF out.grammar = None THEN call.parsed
                            ELSE Append(call.parsed,
                                        [file |-> filePath, handle |-> call.handle,
                                         grammar |-> out.grammar])} :
               calls' = [calls EXCEPT ![k] =
                  IF call.op = "parseFile"
                  THEN [call EXCEPT !.pc = "done", !.result = <<out.result>>,
                                    !.parsed = parsed]
                  ELSE [call EXCEPT !.pc = "awaitFile", !.pending = <<out.result>>,
                                    !.parsed = parsed]]

\* engine.parseDirectory(options) is called: it resets the counter and runs
\* up to `await this.detectFileExtensions(...)` when it has no extensions,
\* else up to the await of the first parseFile
StartParseDirectory(options) ==
  /\ Len(calls) < MaxCalls
  /\ \E st1 \in {resetCounter(EngineOf(CallEngine))} :
       IF options.fileExtensions = {}
       THEN /\ StoreCall(st1)
            /\ calls' = Append(calls, [NewCall("parseDirectory", options) EXCEPT
                                         !.pc = "awaitDetect"])
       ELSE \E out \in {afterFindFiles(st1, NewCall("parseDirectory", options),
                                       findFiles(options.directory, options.fileExtensions))} :
              /\ StoreCall(out.st)
              /\ calls' = Append(calls, out.call)

\* a parseDirectory goes on after `await this.detectFileExtensions(...)`
ResumeDetect(k) ==
  /\ calls[k].pc = "awaitDetect"
  /\ \E out \in {afterFindFiles(EngineOf(CallEngine), calls[k],
                   findFiles(calls[k].arg.directory,
                             detectFileExtensions(calls[k].arg.directory)))} :
       /\ StoreCall(out.st)
       /\ calls' = [calls EXCEPT ![k] = out.call]

\* a parseDirectory goes on after `await this.parseFile(file)`: the push
\* and the next turn of the loop
ResumeLoop(k) ==
  /\ calls[k].pc = "awaitFile"
  /\ \E out \in {nextFile(EngineOf(CallEngine),
                          [calls[k] EXCEPT
                             !.result = pushDeclaration(@, calls[k].pending[1]),
                             !.pending = <<>>, !.next = @ + 1])} :
       /\ StoreCall(out.st)
       /\ calls' = [calls EXCEPT ![k] = out.call]

NextCalls ==
  \/ \E filePath \in CallFileArgs : StartParseFile(filePath)
  \/ \E options \in CallOptionArgs : StartParseDirectory(options)
  \/ \E k \in 1..Len(calls) : ResumeParseFile(k)
  \/ \E k \in 1..Len(calls) : ResumeDetect(k)
  \/ \E k \in 1..Len(calls) : ResumeLoop(k)

\* ------------------------------------------------------------------------
\* Initial states and specifications
\* ------------------------------------------------------------------------
InitTreeVars == tree = Program(<<>>) /\ built = 0 /\ decls = NoDecls

InitLangVars == langResult = NoLangResult

\* the constructor of CodeParser, for every engine, in a new process
InitEngineVars ==
  /\ JavaScript = None
  /\ TypeScript = None
  /\ idCounter = [e \in Engines |-> 1]
  /\ languageModules = [e \in Engines |-> EmptyCache]
  /\ parserLanguage = [e \in Engines |-> None]
  /\ soloJavaScript = [e \in Engines |-> None]
  /\ soloTypeScript = [e \in Engines |-> None]
  /\ soloModules = [e \in Engines |-> EmptyCache]
  /\ last = NoCall
  /\ calls = <<>>

\* an empty text, its tree, and nothing computed from them yet
InitTextVars ==
  /\ fileContent = <<>>
  /\ sourceRoot = EmptyRoot
  /\ pieces = 0
  /\ sourcePath = <<>>
  /\ subject = 0
  /\ closest = NoComment
  /\ fileDecl = NoFile

Init == InitTreeVars /\ InitLangVars /\ path = <<>> /\ InitEngineVars /\ InitTextVars
InitTree == Init
InitLang ==
  InitTreeVars /\ InitLangVars /\ path \in TestPaths /\ InitEngineVars /\ InitTextVars

Spec == Init /\ [][Next]_vars
SpecTree == InitTree /\ [][NextTree]_vars
SpecLang == InitLang /\ [][NextLang]_vars
SpecGrammar == Init /\ [][NextGrammar]_vars
SpecComment == Init /\ [][NextComment]_vars
SpecTypes == Init /\ [][NextTypes]_vars
SpecShapes == Init /\ [][NextShapes]_vars
SpecCalls == Init /\ [][NextCalls]_vars

\* ------------------------------------------------------------------------
\* Properties
\* ------------------------------------------------------------------------
RECURSIVE SeqSum(_)
SeqSum(s) == IF Len(s) = 0 THEN 0 ELSE Head(s) + SeqSum(Tail(s))

\* the ids and the number of the records of one class, one file, one run
ClassIds(c) == {c.id} \cup {c.methods[j].id : j \in 1..Len(c.methods)}
FileIds(fd) ==
  {fd.functions[i].id : i \in 1..Len(fd.functions)}
    \cup UNION {ClassIds(fd.classes[i]) : i \in 1..Len(fd.classes)}
FileCount(fd) ==
  Len(fd.functions)
    + SeqSum([i \in 1..Len(fd.classes) |-> 1 + Len(fd.classes[i].methods)])
RunIds(result) == UNION {FileIds(result[i]) : i \in 1..Len(result)}
RunCount(result) == SeqSum([i \in 1..Len(result) |-> FileCount(result[i])])

\* C1: the ids of all records in the output of one parseDirectory run
\* (functions, classes and methods of every returned FileDeclaration) are
\* pairwise distinct and are exactly 1..n, n being the number of records.
C1_DenseIds ==
  last.op = "parseDirectory" =>
    RunIds(last.result) = 1..RunCount(last.result)

\* a run on an engine whose counter had advanced, over several files, that
\* returned at least four records
C1_Witness ==
  /\ last.op = "parseDirectory"
  /\ last.engine \in Engines
  /\ last.start > 1
  /\ Len(last.result) >= 3
  /\ RunCount(last.result) >= 4

\* C2 as claimed: every parseFile and parseDirectory invocation on an engine
\* starts from id 1, so the first record each invocation produces has id 1.
C2_EveryCallStartsAtOne ==
  (last.op \in {"parseFile", "parseDirectory"} /\ RunCount(last.result) > 0) =>
    Min(RunIds(last.result)) = 1

\* C2 as amended: the first record of every parseDirectory invocation and of
\* every call of an exported wrapper (a new engine) has id 1; a parseFile
\* call on an existing engine does not reset the counter, its first record
\* takes the value the counter had when the call started.
C2_ResetOnDirectoryOnly ==
  /\ (/\ last.op = "parseDirectory" \/ (last.op = "parseFile" /\ last.engine = 0)
      /\ RunCount(last.result) > 0)
       => Min(RunIds(last.result)) = 1
  /\ (last.op = "parseFile" /\ last.engine \in Engines /\ RunCount(last.result) > 0)
       => Min(RunIds(last.result)) = last.start

\* a parseFile call on an engine whose counter had advanced, with records
C2_Witness ==
  /\ last.op = "parseFile"
  /\ last.engine \in Engines
  /\ last.start > 1
  /\ RunCount(last.result) > 0

\* the nodes recorded as top-level functions, and as methods of a class
FunctionNodes(d) == {d.functions[i].node : i \in 1..Len(d.functions)}
MethodNodes(d) ==
  UNION {{d.classes[i].methods[j].node : j \in 1..Len(d.classes[i].methods)} :
           i \in 1..Len(d.classes)}
FunctionIds(d) == {d.functions[i].id : i \in 1..Len(d.functions)}
MethodIds(d) ==
  UNION {{d.classes[i].methods[j].id : j \in 1..Len(d.classes[i].methods)} :
           i \in 1..Len(d.classes)}
MethodNames(d) ==
  UNION {{d.classes[i].methods[j].functionName : j \in 1..Len(d.classes[i].methods)} :
           i \in 1..Len(d.classes)}
FunctionNames(d) == {d.functions[i].functionName : i \in 1..Len(d.functions)}

\* C3: no declaration recorded in a ClassDeclaration.methods list is also
\* recorded in FileDeclaration.functions; a function and a method that
\* share a name are distinct records with distinct ids.
C3_MethodsNotTopLevel ==
  decls # NoDecls =>
    /\ FunctionNodes(decls) \cap MethodNodes(decls) = {}
    /\ FunctionIds(decls) \cap MethodIds(decls) = {}

\* a file with a class method and a top-level function of the same name
C3_Witness ==
  /\ decls # NoDecls
  /\ FunctionNames(decls) \cap MethodNames(decls) # {}

\* the declaration behind an export wrapper
Unwrapped(s) ==
  IF s.type = "export_statement" /\ Len(s.kids) > 0 THEN s.kids[1] ELSE s

\* is a statement a function-shaped declaration: a function or generator
\* declaration, a binding of a function value, a function-shaped type alias
FunctionShaped(s) ==
  \/ s.type \in {"function_declaration", "generator_function_declaration"}
  \/ /\ s.type \in {"lexical_declaration", "variable_declaration"}
     /\ \E i \in 1..Len(s.kids) :
          /\ s.kids[i].type = "variable_declarator"
          /\ s.kids[i].kids[Len(s.kids[i].kids)].type \in {"arrow_function", "function"}
  \/ s.type = "type_alias_declaration" /\ fieldType(s, "value") = "function_type"

\* the number of callable members of a class-shaped declaration
CallableMembers(s) ==
  IF s.type \in {"class_declaration", "interface_declaration"} /\ fieldIndex(s, "body") # 0
  THEN Cardinality({i \in 1..Len(s.kids[fieldIndex(s, "body")].kids) :
                      s.kids[fieldIndex(s, "body")].kids[i].type \in
                        {"method_definition", "property_definition", "method_signature"}})
  ELSE 0

TopLevelFunctions(t) ==
  Cardinality({i \in 1..Len(t.kids) : FunctionShaped(Unwrapped(t.kids[i]))})
TopLevelMethods(t) ==
  SeqSum([i \in 1..Len(t.kids) |-> CallableMembers(Unwrapped(t.kids[i]))])
TotalMethods(d) == SeqSum([i \in 1..Len(d.classes) |-> Len(d.classes[i].methods)])

\* C4: for a file with N top-level function-shaped declarations and class-
\* shaped declarations holding K methods in total, functions has length N
\* (functions nested in function bodies are not counted) and the methods
\* lists have total length K.
C4_Counts ==
  decls # NoDecls =>
    /\ Len(decls.functions) = TopLevelFunctions(tree)
    /\ TotalMethods(decls) = TopLevelMethods(tree)

\* does loading the grammar of a language fail: its package is missing or
\* the parser rejects its handle
LoadFails(language) == language \notin Installed \/ language \in Incompatible

\* a file-level fault: an unsupported or excluded extension, a grammar that
\* fails to load, a missing or unreadable file
FileFault(filePath) ==
  \/ getLanguageForFile(filePath) \in skipLanguages
  \/ LoadFails(getLanguageForFile(filePath))
  \/ ~FileReadable(filePath)

C6_UnsupportedSkipped ==
  last.op = "parseDirectory" =>
    \A i \in 1..Len(last.result) :
      getLanguageForFile(last.result[i].fileName) \notin skipLanguages

IsPrefix(a, b) == Len(a) <= Len(b) /\ SubSeq(b, 1, Len(a)) = a

\* does scanning a directory fail: it does not exist, or it or a directory
\* below it cannot be read
ScanFails(directory) ==
  \/ ~\E d \in DirTable : d.path = directory
  \/ \E d \in DirTable :
       /\ ~d.readable
       /\ (d.path = directory \/ IsPrefix(directory \o <<"/">>, d.path))

\* C7: when directory-level scanning fails parseDirectory returns an empty
\* sequence, never a partial list, and propagates no exception.
C7_ScanFailureEmpty ==
  last.op = "parseDirectory" =>
    /\ ~last.threw
    /\ ScanFails(last.arg.directory) => last.result = <<>>

\* a scan that had found a matching file before a subdirectory failed
C7_Witness ==
  /\ last.op = "parseDirectory"
  /\ last.caught
  /\ last.arg.directory = <<"q">>
  /\ <<".", "j", "s">> \in last.arg.fileExtensions

\* has engine e loaded the grammar of a language: the handle is cached and
\* the parser accepted it
Loaded(e, language) == languageModules[e][language] \notin ({None} \cup Incompatible)

\* the caller and the language of the initParser call made by the last call
LoadEngine(call) == call.engine
LoadLanguage(call) ==
  IF call.op = "initParser" THEN call.arg ELSE getLanguageForFile(call.arg)

\* C8: once an engine has loaded a grammar identifier, every later
\* initParser call for it (made directly or by parseFile) takes the cached
\* handle: no require(), the cache and the module variables stay as they
\* are, and the cached handle becomes the parser's language.
C8_CachedHandleReused ==
  [][ (/\ last'.op \in {"initParser", "parseFile"}
       /\ last'.load
       /\ last'.engine \in Engines
       /\ Loaded(LoadEngine(last'), LoadLanguage(last')))
      => /\ last'.hit /\ ~last'.required /\ ~last'.threw
         /\ languageModules' = languageModules
         /\ JavaScript' = JavaScript /\ TypeScript' = TypeScript
         /\ parserLanguage'[LoadEngine(last')] =
              languageModules[LoadEngine(last')][LoadLanguage(last')] ]_vars

\* an initParser call that took the cached handle of a language loaded
\* through require('tree-sitter-' + language)
C8_Witness ==
  /\ last.op = "initParser"
  /\ last.hit /\ ~last.threw
  /\ moduleVariable(last.arg) = None
  /\ parserLanguage[last.engine] = languageModules[last.engine][last.arg]

\* C9: operations of one engine instance never affect another: the cache of
\* an engine is what it would be had no other instance loaded or parsed
\* anything.
C9_Isolation ==
  \A e \in Engines : languageModules[e] = soloModules[e]

\* the extension table of the specification
GrammarTable ==
  { <<<<".", "j", "s">>, "javascript">>, <<<<".", "j", "s", "x">>, "javascript">>, <<<<".", "t", "s">>, "typescript">>,
    <<<<".", "t", "s", "x">>, "tsx">>, <<<<".", "p", "y">>, "python">>, <<<<".", "r", "b">>, "ruby">>,
    <<<<".", "j", "a", "v", "a">>, "java">>, <<<<".", "c">>, "c">>, <<<<".", "h">>, "c">>, <<<<".", "c", "p", "p">>, "cpp">>,
    <<<<".", "h", "p", "p">>, "cpp">>, <<<<".", "c", "c">>, "cpp">>, <<<<".", "c", "s">>, "c_sharp">>, <<<<".", "g", "o">>, "go">>,
    <<<<".", "p", "h", "p">>, "php">>, <<<<".", "r", "s">>, "rust">> }

\* does a path end in an extension, whatever the case of its letters, with
\* a base name in front of it
HasExtension(p, ext) ==
  /\ Len(p) > Len(ext)
  /\ p[Len(p) - Len(ext)] # "/"
  /\ \A i \in 1..Len(ext) :
       LET c == p[Len(p) - Len(ext) + i]
       IN c = ext[i] \/ (c \in DOMAIN LowerOf /\ LowerOf[c] = ext[i])

TableRows(p) == {row \in GrammarTable : HasExtension(p, row[1])}

\* C10: getLanguageForFile maps the extension of a path, compared without
\* regard to case, by the fixed table; .json and every other extension map
\* to a sentinel, on which parseFile returns an empty FileDeclaration
\* without loading a grammar or reading the file.
C10_ExtensionTable ==
  /\ langResult.op # "none" =>
       /\ \A row \in TableRows(path) : langResult.language = row[2]
       /\ TableRows(path) = {} => langResult.language \in skipLanguages
  /\ (langResult.op = "parseFile" /\ TableRows(path) = {}) =>
       /\ ~langResult.load /\ ~langResult.read
       /\ langResult.result = FileDeclaration(path, <<>>, <<>>)

\* an extension written in upper case that the table maps to a grammar
C10_Witness ==
  /\ langResult.op = "getLanguageForFile"
  /\ langResult.language = "tsx"
  /\ path # toLowerCase(path)

\* ------------------------------------------------------------------------
\* Properties of the walk: which nodes are recorded, and with which ids
\* ------------------------------------------------------------------------
\* the paths of all nodes of a tree
RECURSIVE AllPaths(_, _)
AllPaths(node, nodePath) ==
  {nodePath} \cup
  UNION {AllPaths(node.kids[i], Append(nodePath, i)) : i \in 1..Len(node.kids)}

\* the paths of the nodes traverseTree is called on: all but the nodes in
\* the body of a class declaration
RECURSIVE WalkedPaths(_, _)
WalkedPaths(node, nodePath) ==
  {nodePath} \cup
  UNION {WalkedPaths(node.kids[i], Append(nodePath, i)) :
           i \in {k \in 1..Len(node.kids) :
                    ~(node.type = "class_declaration" /\ node.kids[k].field = "body")}}

\* does path p come before path q in the pre-order, left-to-right walk
PathBefore(p, q) ==
  /\ p # q
  /\ \/ Len(p) < Len(q) /\ SubSeq(q, 1, Len(p)) = p
     \/ \E i \in 1..Min({Len(p), Len(q)}) :
          /\ SubSeq(p, 1, i - 1) = SubSeq(q, 1, i - 1)
          /\ p[i] < q[i]

\* the records of a result made from node p
ClassRecordsOf(d, p) == {i \in 1..Len(d.classes) : d.classes[i].node = p}
FunctionRecordsOf(d, p) == {i \in 1..Len(d.functions) : d.functions[i].node = p}

\* all records of a result: functions, classes and methods, as (id, node)
AllRecords(d) ==
  {[id |-> d.functions[i].id, node |-> d.functions[i].node] : i \in 1..Len(d.functions)}
  \cup {[id |-> d.classes[i].id, node |-> d.classes[i].node] : i \in 1..Len(d.classes)}
  \cup UNION {{[id |-> d.classes[i].methods[j].id, node |-> d.classes[i].methods[j].node] :
                 j \in 1..Len(d.classes[i].methods)} : i \in 1..Len(d.classes)}

\* C13: every named class declaration, interface declaration and enum
\* declaration of a file has exactly one ClassDeclaration record in classes.
C13_ClassLikeRecorded ==
  decls # NoDecls =>
    \A p \in AllPaths(tree, <<>>) :
      (/\ NodeAt(tree, p).type \in {"class_declaration", "interface_declaration",
                                    "enum_declaration"}
       /\ fieldText(NodeAt(tree, p), "name") # "")
      => Cardinality(ClassRecordsOf(decls, p)) = 1

\* is a node function-like for the dispatcher: a function declaration, a
\* generator function declaration, a type alias of a function-shaped type
DispatchedFunctionLike(n) ==
  \/ n.type \in {"function_declaration", "generator_function_declaration"}
  \/ n.type = "type_alias_declaration"
       /\ fieldType(n, "value") \in {"function_type", "arrow_function"}

\* C14: every function-like node the walk dispatches (function declaration,
\* generator function declaration, function-shaped type alias) has a
\* function record, and its functionName is not empty.
C14_DispatchedRecorded ==
  decls # NoDecls =>
    \A p \in WalkedPaths(tree, <<>>) :
      DispatchedFunctionLike(NodeAt(tree, p)) =>
        /\ Cardinality(FunctionRecordsOf(decls, p)) = 1
        /\ \A i \in FunctionRecordsOf(decls, p) : decls.functions[i].functionName # ""

\* C16: ids follow the pre-order of the nodes the records are made from; in
\* particular a class has a smaller id than each of its methods.
C16_PreOrderIds ==
  decls # NoDecls =>
    \A x, y \in AllRecords(decls) : PathBefore(x.node, y.node) => x.id < y.id

\* is a node a binding of an arrow or anonymous function
FunctionBinding(n) ==
  /\ n.type = "variable_declarator"
  /\ Len(n.kids) > 0
  /\ n.kids[Len(n.kids)].type \in {"arrow_function", "function"}

RECURSIVE Discovered(_, _)
Discovered(directory, extensions) ==
  LET entries == DirEntries(directory)
      Of(i) == IF entries[i].kind = "dir"
               THEN Discovered(join(directory, entries[i].name), extensions)
               ELSE IF toLowerCase(extname(entries[i].name)) \in extensions
                    THEN <<join(directory, entries[i].name)>> ELSE <<>>
      Upto[i \in 0..Len(entries)] == IF i = 0 THEN <<>> ELSE Upto[i - 1] \o Of(i)
  IN Upto[Len(entries)]

\* the place of a step among the steps of one file
StepRank(step) ==
  CASE step = "select" -> 1 [] step = "load" -> 2 [] step = "read" -> 3
    [] step = "tree" -> 4 [] step = "traverse" -> 5

\* C19: parseDirectory handles the files one after another in discovery
\* order: in the log of steps, every step of a file comes before every step
\* of the files discovered after it, the steps of one file are in the order
\* selection, loading, read, tree, traversal, and the array returned lists
\* the FileDeclarations of the files in discovery order.
C19_FilesInOrder ==
  (last.op = "parseDirectory" /\ ~last.threw /\ ~last.caught) =>
    LET files == Discovered(last.arg.directory, extensionsOf(last.arg))
        Index(f) == CHOOSE i \in 1..Len(files) : files[i] = f
    IN /\ Len(last.result) = Len(files)
       /\ \A i \in 1..Len(files) : last.result[i].fileName = files[i]
       /\ \A i \in 1..Len(files) : \E k \in 1..Len(last.steps) : last.steps[k].file = files[i]
       /\ \A k, l \in 1..Len(last.steps) :
            k < l =>
              /\ last.steps[k].file \in {files[i] : i \in 1..Len(files)}
              /\ Index(last.steps[k].file) <= Index(last.steps[l].file)
              /\ last.steps[k].file = last.steps[l].file =>
                   StepRank(last.steps[k].step) < StepRank(last.steps[l].step)

\* a scan that found files in a directory and in a subdirectory, one of them
\* skipped and several of them traversed
C19_Witness ==
  /\ last.op = "parseDirectory"
  /\ Len(last.result) >= 4
  /\ \E i \in 1..Len(last.result) :
       \E k \in (Len(last.arg.directory) + 2)..Len(last.result[i].fileName) :
          last.result[i].fileName[k] = "/"
  /\ Cardinality({k \in 1..Len(last.steps) : last.steps[k].step = "traverse"}) >= 2
  /\ \E i \in 1..Len(last.result) :
       getLanguageForFile(last.result[i].fileName) \in skipLanguages

\* ------------------------------------------------------------------------
\* Properties of comment association
\* ------------------------------------------------------------------------
\* the node findClosestComment was called on, the comment index of the text
SubjectNode == sourceRoot.kids[subject]
CommentIndex == buildCommentMap(sourceRoot, fileContent)

\* the 1-based line an offset lies on: one more than the line breaks before it
LineOf(pos) == 1 + Cardinality({i \in 1..pos : fileContent[i] = "\n"})

\* the line distance of entry k of an index from the subject node
LineDistance(index, k) == LineOf(SubjectNode.startPosition) - LineOf(index[k].key)

\* the entries of an index that end strictly before the subject node starts,
\* at a line distance of 0 to 9
Candidates(index) ==
  {k \in 1..Len(index) :
     /\ index[k].key < SubjectNode.startPosition
     /\ LineDistance(index, k) >= 0
     /\ LineDistance(index, k) <= 9}

\* C17: findClosestComment returns only a comment that ends strictly before
\* the start offset of the node, at a line distance of 0 to 9 lines; when
\* there is no such comment (the nearest one is 12 lines away, say) it
\* returns none, and when there is one (3 lines away, say) it returns one.
C17_WithinNineLines ==
  subject # 0 =>
    \A index \in {CommentIndex} :
      /\ closest.hit => \E k \in Candidates(index) : index[k].value = closest.text
      /\ Candidates(index) = {} => ~closest.hit
      /\ (\E k \in Candidates(index) : LineDistance(index, k) = 3) => closest.hit

\* the nearest comment before a function declaration ends 12 lines above it
C17_Witness ==
  /\ subject # 0
  /\ ~closest.hit
  /\ \E k \in 1..Len(CommentIndex) : LineDistance(CommentIndex, k) = 12
  /\ \A k \in 1..Len(CommentIndex) : LineDistance(CommentIndex, k) >= 12

\* C18: the comment findClosestComment returns has the smallest line
\* distance among the candidates, and among the candidates at that distance
\* it is the first in the iteration order of the comment index.
C18_ClosestFirst ==
  (subject # 0 /\ closest.hit) =>
    \A index \in {CommentIndex} :
      \E k \in Candidates(index) :
        /\ index[k].value = closest.text
        /\ \A l \in Candidates(index) :
             /\ LineDistance(index, k) <= LineDistance(index, l)
             /\ LineDistance(index, l) = LineDistance(index, k) => k <= l

\* two candidates with different texts at the same, smallest distance, the
\* one later in the text being the first of the index
C18_Witness ==
  /\ subject # 0
  /\ closest.hit
  /\ \E k, l \in Candidates(CommentIndex) :
       /\ k < l
       /\ CommentIndex[k].key > CommentIndex[l].key
       /\ CommentIndex[k].value # CommentIndex[l].value
       /\ LineDistance(CommentIndex, k) = LineDistance(CommentIndex, l)
       /\ \A m \in Candidates(CommentIndex) :
            LineDistance(CommentIndex, k) <= LineDistance(CommentIndex, m)

\* ------------------------------------------------------------------------
\* Properties of the type resolver and of the dependency mode (SpecTypes)
\* ------------------------------------------------------------------------
\* the function and method records of the parsed file, each with the node
\* its parameters and return type are read from
TypedRecords ==
  {[rec |-> fileDecl.functions[i],
    typed |-> NodeAt(sourceRoot, fileDecl.functions[i].node)] :
     i \in 1..Len(fileDecl.functions)}
  \cup
  UNION {{[rec |-> fileDecl.classes[i].methods[j],
           typed |-> typedNodeOf(NodeAt(sourceRoot, fileDecl.classes[i].methods[j].node))] :
            j \in 1..Len(fileDecl.classes[i].methods)} :
           i \in 1..Len(fileDecl.classes)}

\* the function a record is about: the value of a declarator, else the node
FunctionOf(typed) ==
  IF typed.type = "variable_declarator" THEN fieldChild(typed, "value") ELSE typed

\* the comment associated with the node of a record
CommentOf(rec) ==
  findClosestComment(NodeAt(sourceRoot, rec.node),
                     buildCommentMap(sourceRoot, fileContent), fileContent)

\* the type a parameter is annotated with in the code, "" without annotation
ExplicitType(param) ==
  LET annotated == IF param.type = "assignment_pattern" THEN fieldChild(param, "left")
                   ELSE param
  IN IF hasField(annotated, "type")
     THEN LET t == textOf(fieldChild(annotated, "type"), fileContent)
          IN trim(IF Len(t) > 0 /\ t[1] = ":" THEN Tail(t) ELSE t)
     ELSE <<>>

\* C11: a parameter with an explicit type annotation and a @param tag of
\* another type in the associated comment has the explicit annotation as
\* its type; and a parameter whose type is that of the @param tag, not the
\* explicit one, has no explicit annotation
C11_ExplicitWins ==
  fileDecl.done =>
    \A r \in TypedRecords :
      LET params == fieldChild(FunctionOf(r.typed), "parameters").kids
          docs == extractJSDocParamTypes(CommentOf(r.rec))
      IN \A i \in 1..Len(r.rec.parameters) :
           LET explicit == ExplicitType(params[i])
               info == r.rec.parameters[i]
               conflict == mapHas(docs, info.name) /\ mapGet(docs, info.name) # explicit
           IN /\ (explicit # <<>> /\ conflict) => info.type = explicit
              /\ (conflict /\ info.type = mapGet(docs, info.name)) => explicit = <<>>

\* the return type a function is annotated with in the code
ExplicitReturn(typed) ==
  IF hasField(FunctionOf(typed), "return_type")
  THEN LET t == textOf(fieldChild(FunctionOf(typed), "return_type"), fileContent)
       IN Defined(trim(IF Len(t) > 0 /\ t[1] = ":" THEN Tail(t) ELSE t))
  ELSE Undefined

\* C12: the return type of a record is the explicit return type annotation
\* when there is one, else the type of the @returns {Type} tag of the
\* associated comment, else absent; it is never the empty string
C12_ReturnTypeResolution ==
  fileDecl.done =>
    \A r \in TypedRecords :
      LET explicit == ExplicitReturn(r.typed)
          jsDoc == CommentOf(r.rec)
          tag == IF jsDoc.hit THEN returnsTag(jsDoc.text) ELSE NoMatch
      IN /\ r.rec.returnType =
              (IF explicit.has THEN explicit
               ELSE IF tag.ok THEN Defined(trim(tag.groups[1]))
               ELSE Undefined)
         /\ r.rec.returnType # Defined(<<>>)

\* is function b called, by the text, within the body of function a
CalledInBody(a, b) ==
  LET body == fieldChild(FunctionOf(NodeAt(sourceRoot, fileDecl.functions[a].node)), "body")
      name == keyOf(fileDecl.functions[b].functionName)
  IN \E i \in body.startPosition..(body.endPosition - Len(name) - 1) :
       litAt(fileContent, i, name \o <<"(">>)

RECURSIVE StripExports(_)
StripExports(node) ==
  LET inner == IF node.type = "export_statement" /\ Len(node.kids) = 1
               THEN node.kids[1] ELSE node
  IN IF inner.type = "export_statement" THEN StripExports(inner)
     ELSE [inner EXCEPT !.kids = [i \in 1..Len(inner.kids) |-> StripExports(inner.kids[i])],
                        !.field = node.field]

\* the records of a result without the places of their nodes: the names
\* of the functions, and of the classes with the names of their methods
Shape(d) ==
  [functions |-> [i \in 1..Len(d.functions) |-> d.functions[i].functionName],
   classes |-> [i \in 1..Len(d.classes) |->
                  [className |-> d.classes[i].className,
                   methods |-> [j \in 1..Len(d.classes[i].methods) |->
                                  d.classes[i].methods[j].functionName]]]]

\* C21: an export wrapper is transparent: a tree yields the same records
\* (count, names, nesting) as the tree without its export wrappers, no
\* record is made from a wrapper, and no node is recorded twice
C21_ExportTransparent ==
  decls # NoDecls =>
    /\ Shape(decls) = Shape(extractDeclarations(StripExports(tree), 1))
    /\ \A i \in 1..Len(decls.functions) :
         NodeAt(tree, decls.functions[i].node).type # "export_statement"
    /\ \A i \in 1..Len(decls.classes) :
         NodeAt(tree, decls.classes[i].node).type # "export_statement"
    /\ \A i, j \in 1..Len(decls.functions) :
         i # j => decls.functions[i].node # decls.functions[j].node
    /\ \A i, j \in 1..Len(decls.classes) :
         i # j => decls.classes[i].node # decls.classes[j].node

\* a result with the record of a function and the record, with a method,
\* of a class, both made from nodes under an export wrapper
C21_Witness ==
  /\ decls # NoDecls
  /\ \E i \in 1..Len(decls.functions) :
       /\ Len(decls.functions[i].node) > 1
       /\ NodeAt(tree, SubSeq(decls.functions[i].node, 1, 1)).type = "export_statement"
  /\ \E i \in 1..Len(decls.classes) :
       /\ Len(decls.classes[i].node) > 1
       /\ NodeAt(tree, SubSeq(decls.classes[i].node, 1, 1)).type = "export_statement"
       /\ Len(decls.classes[i].methods) > 0

\* ------------------------------------------------------------------------
\* Properties of class signatures and of destructured parameters (SpecShapes)
\* ------------------------------------------------------------------------
\* C22: the signature of every class record is the text from the start of
\* its node to the start of its member list, trimmed, and "class " followed
\* by the name when there is no member list to cut at
C22_SignatureIsSlice ==
  fileDecl.done =>
    \A i \in 1..Len(fileDecl.classes) :
      LET node == NodeAt(sourceRoot, fileDecl.classes[i].node)
      IN fileDecl.classes[i].signature =
           (IF hasField(node, "body")
            THEN trim(SubSeq(fileContent, node.startPosition + 1,
                             fieldChild(node, "body").startPosition))
            ELSE <<"c", "l", "a", "s", "s", " ">> \o keyOf(fileDecl.classes[i].className))

\* the pattern of a parameter node: the node itself, or what a
\* required_parameter wraps
PatternOf(param) ==
  IF param.type = "required_parameter" /\ hasField(param, "pattern")
  THEN fieldChild(param, "pattern") ELSE param

\* C23: a destructured parameter has as its name the text of the pattern,
\* with its one pair of brackets, and as its type "object" for an object
\* pattern and "array" for an array pattern
C23_PatternNames ==
  fileDecl.done =>
    \A r \in TypedRecords :
      LET params == fieldChild(FunctionOf(r.typed), "parameters").kids
      IN \A i \in 1..Len(r.rec.parameters) :
           LET pattern == PatternOf(params[i])
           IN /\ pattern.type = "object_pattern" =>
                   /\ r.rec.parameters[i].name = textOf(pattern, fileContent)
                   /\ r.rec.parameters[i].type = <<"o", "b", "j", "e", "c", "t">>
              /\ pattern.type = "array_pattern" =>
                   /\ r.rec.parameters[i].name = textOf(pattern, fileContent)
                   /\ r.rec.parameters[i].type = <<"a", "r", "r", "a", "y">>

\* ------------------------------------------------------------------------
\* Properties of the comment of a declaration among others (SpecComment)
\* ------------------------------------------------------------------------
\* does a function declaration other than the subject start between the
\* end of a comment and the start of the subject
Separated(commentEnd) ==
  \E j \in 1..Len(sourceRoot.kids) :
     /\ j # subject
     /\ sourceRoot.kids[j].type = "function_declaration"
     /\ commentEnd <= sourceRoot.kids[j].startPosition
     /\ sourceRoot.kids[j].startPosition < sourceRoot.kids[subject].startPosition

\* C27: the comment returned for a declaration is a comment that ends
\* before it with no other declaration starting in between
C27_NoDeclarationBetween ==
  (subject # 0 /\ closest.hit) =>
    LET commentMap == buildCommentMap(sourceRoot, fileContent)
    IN \E k \in 1..Len(commentMap) :
         /\ commentMap[k].value = closest.text
         /\ commentMap[k].key < sourceRoot.kids[subject].startPosition
         /\ ~Separated(commentMap[k].key)

\* ------------------------------------------------------------------------
\* Properties of declarations of one name in a TypeScript file (SpecTypes)
\* ------------------------------------------------------------------------
\* the parameter nodes of the function a record is about
ParamsOf(typed) == fieldChild(FunctionOf(typed), "parameters").kids

\* C28: in a TypeScript file, of two declarations with one name whose
\* annotations differ, neither record has a parameter type or a return
\* type that is the annotation of the other and not its own
C28_OwnTypesOnly ==
  (fileDecl.done /\ isTypeScript(sourcePath)) =>
    \A r, o \in TypedRecords :
      (r.rec.node # o.rec.node /\ r.rec.functionName = o.rec.functionName) =>
        /\ \A i \in 1..Len(r.rec.parameters) : \A j \in 1..Len(o.rec.parameters) :
              LET own == ExplicitType(ParamsOf(r.typed)[i])
                  other == ExplicitType(ParamsOf(o.typed)[j])
              IN (/\ r.rec.parameters[i].name = o.rec.parameters[j].name
                  /\ own # <<>> /\ other # <<>> /\ own # other)
                 => r.rec.parameters[i].type # other
        /\ LET own == ExplicitReturn(r.typed)
               other == ExplicitReturn(o.typed)
           IN (own.has /\ other.has /\ own # other) => r.rec.returnType # other

\* ------------------------------------------------------------------------
\* Properties of the two grammars of the TypeScript package (SpecGrammar)
\* ------------------------------------------------------------------------
\* C24: whatever the order of the calls, the handle cached for 'tsx' is the
\* tsx grammar and the handle cached for 'typescript' is the typescript
\* grammar, and a successful initParser of one of the two leaves that
\* grammar active
C24_TwoGrammarsApart ==
  \A e \in Engines :
    /\ languageModules[e]["tsx"] \in {None, "tsx"}
    /\ languageModules[e]["typescript"] \in {None, "typescript"}
    /\ (/\ last.op = "initParser" /\ last.engine = e /\ ~last.threw
        /\ last.arg \in {"tsx", "typescript"})
       => parserLanguage[e] = last.arg

\* ------------------------------------------------------------------------
\* Frame of parseFile on a file without grammar (SpecGrammar)
\* ------------------------------------------------------------------------
\* C29: a parseFile call on a path whose extension has no row in the
\* grammar table loads no grammar and reads no file, and leaves the id
\* counter, the grammar cache, the active language and the module
\* variables as they were
C29_SkipLeavesEngine ==
  [][(last'.op = "parseFile" /\ last' # last /\ TableRows(last'.arg) = {})
       => /\ ~last'.load /\ ~last'.read /\ ~last'.required
          /\ UNCHANGED <<idCounter, languageModules, parserLanguage,
                         JavaScript, TypeScript>>]_vars

\* parseFile was called on a .json or .md path on an engine that has a
\* grammar cached and active and has handed out an id
C29_Witness ==
  /\ last.op = "parseFile" /\ last.engine \in Engines
  /\ TableRows(last.arg) = {}
  /\ parserLanguage[last.engine] # None
  /\ idCounter[last.engine] > 1
  /\ \E l \in Languages : languageModules[last.engine][l] # None

\* ------------------------------------------------------------------------
\* Properties of the files of a run with detected extensions (Spec)
\* ------------------------------------------------------------------------
\* is a name that of a directory extension detection does not enter
SkippedName(name) == name = <<"n", "o", "d", "e", "_", "m", "o", "d", "u", "l", "e", "s">> \/ (Len(name) > 0 /\ name[1] = ".")

\* the files with an extension in the directories extension detection
\* enters from a directory on
RECURSIVE VisitedFiles(_)
VisitedFiles(directory) ==
  LET entries == DirEntries(directory)
  IN UNION {IF entries[i].kind = "dir"
            THEN IF SkippedName(entries[i].name) THEN {}
                 ELSE VisitedFiles(join(directory, entries[i].name))
            ELSE IF extname(entries[i].name) # <<>>
                 THEN {join(directory, entries[i].name)} ELSE {} :
            i \in 1..Len(entries)}

\* C30: a run that detects the extensions returns FileDeclarations for
\* exactly the files with an extension in the directories the detection
\* entered: none for a file under a hidden directory or under
\* node_modules, one for every file whose extension was detected
C30_ParsedAreVisited ==
  (/\ last.op = "parseDirectory" /\ ~last.threw /\ ~last.caught
   /\ last.arg.fileExtensions = {} /\ DirExists(last.arg.directory)) =>
    {last.result[i].fileName : i \in 1..Len(last.result)}
      = VisitedFiles(last.arg.directory)

\* ------------------------------------------------------------------------
\* Properties of calls in flight together (SpecCalls)
\* ------------------------------------------------------------------------
\* C25: every file a parseFile call parsed was parsed with the language
\* its own initParser had activated: that is the language active when
\* parser.parse ran
C25_OwnLanguageAtParse ==
  \A k \in 1..Len(calls) :
    calls[k].op = "parseFile" =>
      \A i \in 1..Len(calls[k].parsed) :
        calls[k].parsed[i].grammar = calls[k].parsed[i].handle

\* C26: the ids of the records a parseDirectory run has returned or
\* collected so far are pairwise distinct, whatever other run went on
\* between its steps
C26_RunIdsDistinct ==
  \A k \in 1..Len(calls) :
    calls[k].op = "parseDirectory" =>
      Cardinality(RunIds(calls[k].result)) = RunCount(calls[k].result)

====
